---- MODULE Spec2Model ----
(***************************************************************************)
(* A model of switchcal: the SQLite-backed calendar Store                  *)
(* (pkg/calendar/store.go), the per-account sync orchestrator of the       *)
(* application (syncCalDAVAccount / syncGoogleCalendarAPI), the sync of    *)
(* all accounts at start, the OAuth callback wait and the provider clients.*)
(*                                                                         *)
(* Instants are integers counted in hours; a calendar date is the integer  *)
(* number of the day, so that day D starts at instant D * DayLen.          *)
(***************************************************************************)
EXTENDS Integers, Sequences, FiniteSets, TLC

VARIABLES
    db,        \* the database: [accounts, calendars, events], each a set of rows
    last,      \* the last Store call: [op, id, existed, err]
    result,    \* rows returned by the last range query, in the order returned
    mu,        \* Store.mu: the caller holding it, or NoCaller
    conn,      \* the single pooled connection: the caller using it, or NoCaller
    callers,   \* per caller goroutine: [pc, op, arg]
    sync,      \* per account: its sync goroutine (program counter, loop state)
    syncAcc,   \* per account: the *Account its sync goroutine holds (in memory)
    log,       \* per account: what its sync goroutine has done so far
    now,       \* the wall clock (time.Now()), in hours
    startup,   \* the syncAllAccounts goroutine started by activate
    oauth,     \* one authorization attempt: callback channels, handlers, waiter
    client,    \* one provider client: its account, whether its HTTP client is set
    calc       \* the last call of a function traced with its input and its result

vars == <<db, last, result, mu, conn, callers, sync, syncAcc, log, now,
          startup, oauth, client, calc>>

----------------------------------------------------------------------------
(* Bounds and domains                                                      *)

AccountIds == {"a1", "a2"}
CalendarIds == {"c1", "c2"}
EventIds == {"e1", "e2"}
NoId == "none"

AccountTypes == {"local", "google", "caldav"}

\* start.Add(24 * time.Hour)
DayLen == 24

\* Instants around the midnight that starts day 1.
Instants == {DayLen - 1, DayLen, DayLen + 1}

\* Query dates range over -1 .. MaxDate.
MaxDate == 2
Dates == (0 - 1)..MaxDate

----------------------------------------------------------------------------
(* Rows                                                                    *)

Account(id, type, lastSync) ==
    [id |-> id, type |-> type, enabled |-> TRUE, accessToken |-> "",
     refreshToken |-> "", tokenExpiry |-> 0, lastSync |-> lastSync]

Calendar(id, accountId, visible) ==
    [id |-> id, account_id |-> accountId, visible |-> visible]

Event(id, calendarId, title, start, end, cancelled) ==
    [id |-> id, calendar_id |-> calendarId, title |-> title,
     start |-> start, end |-> end, cancelled |-> cancelled]

EmptyDB == [accounts |-> {}, calendars |-> {}, events |-> {}]

HasId(table, id) == \E r \in table : r.id = id

----------------------------------------------------------------------------
(* SQL statements of the Store, as functions from a database to            *)
(* [db |-> the database after the statement, err |-> whether it failed]    *)

\* INSERT ... ON CONFLICT(id) DO NOTHING: the first write wins.
UpsertIgnore(table, row) ==
    IF HasId(table, row.id) THEN table ELSE table \cup {row}

\* INSERT ... ON CONFLICT(id) DO UPDATE SET <every non-key column> = excluded.<column>
Upsert(table, row) ==
    IF HasId(table, row.id)
    THEN {IF r.id = row.id THEN row ELSE r : r \in table}
    ELSE table \cup {row}

\* DELETE FROM accounts WHERE id = ?, with both ON DELETE CASCADE foreign keys
CascadeDeleteAccount(d, id) ==
    LET cals == {c \in d.calendars : c.account_id = id}
        calIds == {c.id : c \in cals}
    IN [accounts |-> {a \in d.accounts : a.id # id},
        calendars |-> d.calendars \ cals,
        events |-> {e \in d.events : e.calendar_id \notin calIds}]

\* DELETE FROM calendars WHERE id = ?, with events.calendar_id ON DELETE CASCADE
CascadeDeleteCalendar(d, id) ==
    [accounts |-> d.accounts,
     calendars |-> {c \in d.calendars : c.id # id},
     events |-> {e \in d.events : e.calendar_id # id}]

\* INSERT OR REPLACE INTO accounts: the old row is deleted (cascading), then inserted.
ReplaceAccount(d, a) ==
    LET d0 == IF HasId(d.accounts, a.id) THEN CascadeDeleteAccount(d, a.id) ELSE d
    IN [db |-> [d0 EXCEPT !.accounts = @ \cup {a}], err |-> FALSE]

ExecSaveAccount(d, a) ==
    [db |-> [d EXCEPT !.accounts = Upsert(@, a)], err |-> FALSE]

\* The calendars upsert with foreign keys off: no parent check.
SaveCalendarNoFK(d, c) ==
    [db |-> [d EXCEPT !.calendars = Upsert(@, c)], err |-> FALSE]

\* FOREIGN KEY (account_id) REFERENCES accounts(id), _foreign_keys=on
ExecSaveCalendar(d, c) ==
    IF ~HasId(d.accounts, c.account_id)
    THEN [db |-> d, err |-> TRUE]
    ELSE [db |-> [d EXCEPT !.calendars = Upsert(@, c)], err |-> FALSE]

\* The events upsert resolving a conflict by keeping the stored row.
SaveEventIgnore(d, e) ==
    IF ~HasId(d.calendars, e.calendar_id)
    THEN [db |-> d, err |-> TRUE]
    ELSE [db |-> [d EXCEPT !.events = UpsertIgnore(@, e)], err |-> FALSE]

\* FOREIGN KEY (calendar_id) REFERENCES calendars(id), _foreign_keys=on
ExecSaveEvent(d, e) ==
    IF ~HasId(d.calendars, e.calendar_id)
    THEN [db |-> d, err |-> TRUE]
    ELSE [db |-> [d EXCEPT !.events = Upsert(@, e)], err |-> FALSE]

\* DELETE FROM accounts without the cascade: children are left behind.
DeleteAccountNoCascade(d, id) ==
    [db |-> [d EXCEPT !.accounts = {a \in @ : a.id # id}], err |-> FALSE]

ExecDeleteAccount(d, id) == [db |-> CascadeDeleteAccount(d, id), err |-> FALSE]

\* DELETE FROM calendars without the cascade: its events are left behind.
DeleteCalendarNoCascade(d, id) ==
    [db |-> [d EXCEPT !.calendars = {c \in @ : c.id # id}], err |-> FALSE]

ExecDeleteCalendar(d, id) == [db |-> CascadeDeleteCalendar(d, id), err |-> FALSE]

ExecDeleteEvent(d, id) ==
    [db |-> [d EXCEPT !.events = {e \in @ : e.id # id}], err |-> FALSE]

ExecDeleteEventsByCalendar(d, calId) ==
    [db |-> [d EXCEPT !.events = {e \in @ : e.calendar_id # calId}], err |-> FALSE]

----------------------------------------------------------------------------
(* Range queries                                                           *)

\* SELECT e.* FROM events e JOIN calendars c ON e.calendar_id = c.id
\* WHERE c.visible = 1 AND e.cancelled = 0 AND e.start_time < end AND e.end_time > start
RangeRows(d, start, end) ==
    {j[1] : j \in {p \in d.events \X d.calendars :
                     /\ p[1].calendar_id = p[2].id
                     /\ p[2].visible
                     /\ ~p[1].cancelled
                     /\ p[1].start < end
                     /\ p[1].end > start}}

\* ORDER BY e.start_time: every listing of the rows with ascending start
\* (rows with equal start come in any order)
OrderedByStart(rows) ==
    {s \in [1..Cardinality(rows) -> rows] :
        /\ \A i, j \in DOMAIN s : i # j => s[i] # s[j]
        /\ \A i, j \in DOMAIN s : i < j => s[i].start <= s[j].start}

\* time.Date(date.Year(), date.Month(), date.Day(), 0, 0, 0, 0, date.Location())
DayStart(t) == (t \div DayLen) * DayLen

Range(s) == {s[i] : i \in DOMAIN s}

----------------------------------------------------------------------------
(* The state of the sync goroutines                                        *)

\* A sync goroutine: where it is, the calendars listed for the account, the
\* index of the calendar being synced, the events fetched for it, the index of
\* the event being saved.
IdleTask == [pc |-> "idle", cals |-> <<>>, i |-> 0, items |-> <<>>, j |-> 0]

NoAccount == Account(NoId, "local", 0)

\* What a sync has done: found the token expired; how many refresh calls it
\* made; failed to authenticate; sent the calendar-list request; listed the
\* calendars; the calendars (by index) it called SaveCalendar for, asked the
\* events of, got the events of, with how many; the events (calendar index,
\* event index) it called SaveEvent for or skipped; the calls that failed;
\* whether it wrote the last-sync instant.
EmptyLog ==
    [expired |-> FALSE, refreshes |-> 0, authFailed |-> FALSE, requested |-> FALSE,
     listed |-> FALSE, tried |-> {}, asked |-> {}, fetched |-> {}, count |-> {},
     offered |-> {}, skipped |-> {}, failed |-> {}, synced |-> FALSE]

\* The syncAllAccounts goroutine: where it is, the accounts GetAllAccounts
\* returned, those still to visit, the one being synced, and how many times it
\* ran the sync of each account.
IdleStartup ==
    [pc |-> "idle", loaded |-> {}, queue |-> <<>>, cur |-> NoId,
     ran |-> [a \in AccountIds |-> 0]]

\* The query of a callback request: ?code=..., ?error=..., or neither.
NoQuery == [code |-> "", error |-> ""]
Queries ==
    {[code |-> "abc123", error |-> ""], [code |-> "", error |-> "access_denied"],
     NoQuery}

\* What travels through a channel: the kind and the value, and (to tell the
\* requests apart) the query it came from, the authorization attempt the
\* request answers and its rank among the requests of that attempt.
Msg(kind, val, q, auth, nth) ==
    [kind |-> kind, val |-> val, q |-> q, auth |-> auth, nth |-> nth]

\* No listener yet. held: a listener that an earlier authorization attempt left
\* open holds the redirect port.
NoOAuth ==
    [impl |-> "none", serving |-> FALSE, held |-> FALSE, codeChan |-> <<>>, errChan |-> <<>>,
     blockedCode |-> <<>>, blockedErr |-> <<>>, timer |-> "off", pc |-> "idle",
     waits |-> 0, callbacks |-> <<>>, pending |-> <<>>, delivered |-> <<>>,
     exchanges |-> 0, accounts |-> 0]

\* No provider client yet. A client: its variant, its account's type and access
\* token, whether its HTTP (CalDAV) client is set, whether an Authenticate call
\* on it returned success, whether one returned an error, and its last call
\* with what it returned.
NoClient ==
    [variant |-> "none", type |-> "local", token |-> "", ready |-> FALSE,
     authOk |-> FALSE, authErr |-> FALSE, op |-> "none", result |-> "none"]

\* No function called yet.
NoCall == [fn |-> "none", kind |-> "none", first |-> <<>>, in |-> <<>>, out |-> <<>>]

NoSync ==
    /\ sync = [a \in AccountIds |-> IdleTask]
    /\ syncAcc = [a \in AccountIds |-> NoAccount]
    /\ log = [a \in AccountIds |-> EmptyLog]
    /\ now = 1
    /\ startup = IdleStartup
    /\ oauth = NoOAuth
    /\ client = NoClient
    /\ calc = NoCall

----------------------------------------------------------------------------
(* Store operations, each one call of the method                           *)

NoCaller == 0

Rows(d) == Cardinality(d.accounts) + Cardinality(d.calendars) + Cardinality(d.events)

\* What a call of the Store did: the method, the identifier it was given, whether a
\* row with that identifier was stored before, how many rows it removed, its error.
Called(op, id, existed, removed, err) ==
    [op |-> op, id |-> id, existed |-> existed, removed |-> removed, err |-> err]

StoreIdle == UNCHANGED <<mu, conn, callers, sync, syncAcc, log, now, startup, oauth, client, calc>>

\* One write call: the statement's outcome r becomes the database.
Write(op, id, existed, r) ==
    /\ last' = Called(op, id, existed,
                      IF Rows(db) > Rows(r.db) THEN Rows(db) - Rows(r.db) ELSE 0, r.err)
    /\ db' = r.db
    /\ result' = <<>>

\* One read call returning rows.
Read(op, rows) ==
    /\ last' = Called(op, NoId, FALSE, 0, FALSE)
    /\ UNCHANGED db
    /\ result' \in OrderedByStart(rows)

SaveAccount(a) ==
    /\ Write("SaveAccount", a.id, HasId(db.accounts, a.id), ExecSaveAccount(db, a))
    /\ StoreIdle

SaveCalendar(c) ==
    /\ Write("SaveCalendar", c.id, HasId(db.calendars, c.id), ExecSaveCalendar(db, c))
    /\ StoreIdle

SaveEvent(e) ==
    /\ Write("SaveEvent", e.id, HasId(db.events, e.id), ExecSaveEvent(db, e))
    /\ StoreIdle

DeleteAccount(id) ==
    /\ Write("DeleteAccount", id, HasId(db.accounts, id), ExecDeleteAccount(db, id))
    /\ StoreIdle

DeleteCalendar(id) ==
    /\ Write("DeleteCalendar", id, HasId(db.calendars, id), ExecDeleteCalendar(db, id))
    /\ StoreIdle

DeleteEvent(id) ==
    /\ Write("DeleteEvent", id, HasId(db.events, id), ExecDeleteEvent(db, id))
    /\ StoreIdle

DeleteEventsByCalendar(calId) ==
    /\ Write("DeleteEventsByCalendar", calId, HasId(db.calendars, calId),
             ExecDeleteEventsByCalendar(db, calId))
    /\ StoreIdle

\* The range query with both comparisons inclusive.
GetEventsInRangeClosed(start, end) ==
    /\ Read("GetEventsInRange", RangeRows(db, start - 1, end + 1))
    /\ StoreIdle

GetEventsInRange(start, end) ==
    /\ Read("GetEventsInRange", RangeRows(db, start, end))
    /\ StoreIdle

\* The date query without the truncation to midnight.
GetEventsForDateNoTrunc(date) ==
    /\ Read("GetEventsForDate", RangeRows(db, date, date + DayLen))
    /\ StoreIdle

GetEventsForDate(date) ==
    LET start == DayStart(date)
        end == start + DayLen
    IN /\ Read("GetEventsForDate", RangeRows(db, start, end))
       /\ StoreIdle

----------------------------------------------------------------------------
(* Spec: any sequence of save and delete calls on the Store                *)

StoreAccountTypes == {"local", "google"}
Titles == {"t1", "t2"}

AccountInputs == {Account(id, t, 0) : id \in AccountIds, t \in StoreAccountTypes}
CalendarInputs ==
    {Calendar(id, a, v) : id \in CalendarIds, a \in AccountIds, v \in BOOLEAN}
EventInputs ==
    {Event(id, c, t, DayLen, DayLen + 1, FALSE) :
        id \in EventIds, c \in CalendarIds, t \in Titles}

InitCommon ==
    /\ db = EmptyDB
    /\ last = Called("NewStore", NoId, FALSE, 0, FALSE)
    /\ result = <<>>
    /\ mu = NoCaller
    /\ conn = NoCaller
    /\ callers = <<>>
    /\ NoSync

Init == InitCommon

Next ==
    \/ \E a \in AccountInputs : SaveAccount(a)
    \/ \E c \in CalendarInputs : SaveCalendar(c)
    \/ \E e \in EventInputs : SaveEvent(e)
    \/ \E id \in AccountIds : DeleteAccount(id)
    \/ \E id \in CalendarIds : DeleteCalendar(id)
    \/ \E id \in EventIds : DeleteEvent(id)
    \/ \E id \in CalendarIds : DeleteEventsByCalendar(id)

Spec == Init /\ [][Next]_vars

----------------------------------------------------------------------------
(* QuerySpec: saves of one account's calendars and events with every       *)
(* start and end around midnight, and the range queries                    *)

QueryAccount == Account("a1", "local", 0)
QueryCalendarInputs == {Calendar(id, "a1", v) : id \in CalendarIds, v \in BOOLEAN}
\* event e1 in calendar c1 and event e2 in calendar c2
QueryEventInputs ==
    {Event(p[1], p[2], "t1", s, e, x) :
        p \in {<<"e1", "c1">>, <<"e2", "c2">>},
        s \in Instants, e \in Instants, x \in BOOLEAN}

QueryInstants == {DayLen - 1, DayLen, DayLen + 1, 2 * DayLen}
\* midnight and 13:00 of every date
DateInstants == {d * DayLen + o : d \in Dates, o \in {0, 13}}

QueryNext ==
    \/ SaveAccount(QueryAccount)
    \/ \E c \in QueryCalendarInputs : SaveCalendar(c)
    \/ \E e \in QueryEventInputs : SaveEvent(e)
    \/ \E id \in EventIds : DeleteEvent(id)
    \/ \E s \in QueryInstants, e \in QueryInstants : GetEventsInRange(s, e)
    \/ \E t \in DateInstants : GetEventsForDate(t)

QuerySpec == Init /\ [][QueryNext]_vars

----------------------------------------------------------------------------
(* LockSpec: goroutines calling the write methods of one Store             *)
(* concurrently. A Save method locks Store.mu around its db.Exec; a Delete *)
(* method calls db.Exec directly. Every db.Exec runs its statement on the  *)
(* pool's connection, and the pool is opened with SetMaxOpenConns(1).      *)

NumCallers == 2
Callers == 1..NumCallers

SaveOps == {"SaveAccount", "SaveCalendar", "SaveEvent"}
DeleteOps == {"DeleteAccount", "DeleteCalendar", "DeleteEvent", "DeleteEventsByCalendar"}

LockArg(op) ==
    CASE op = "SaveAccount" -> Account("a1", "local", 0)
      [] op = "SaveCalendar" -> Calendar("c1", "a1", TRUE)
      [] op = "SaveEvent" -> Event("e1", "c1", "t1", DayLen, DayLen + 1, FALSE)
      [] op = "DeleteAccount" -> "a1"
      [] op = "DeleteCalendar" -> "c1"
      [] op = "DeleteEvent" -> "e1"
      [] op = "DeleteEventsByCalendar" -> "c1"

\* The statement a method runs, and the rows a call is about.
Statement(d, op, arg) ==
    CASE op = "SaveAccount" -> ExecSaveAccount(d, arg)
      [] op = "SaveCalendar" -> ExecSaveCalendar(d, arg)
      [] op = "SaveEvent" -> ExecSaveEvent(d, arg)
      [] op = "DeleteAccount" -> ExecDeleteAccount(d, arg)
      [] op = "DeleteCalendar" -> ExecDeleteCalendar(d, arg)
      [] op = "DeleteEvent" -> ExecDeleteEvent(d, arg)
      [] op = "DeleteEventsByCalendar" -> ExecDeleteEventsByCalendar(d, arg)

Existed(d, op, arg) ==
    CASE op = "SaveAccount" -> HasId(d.accounts, arg.id)
      [] op = "SaveCalendar" -> HasId(d.calendars, arg.id)
      [] op = "SaveEvent" -> HasId(d.events, arg.id)
      [] op = "DeleteAccount" -> HasId(d.accounts, arg)
      [] op = "DeleteCalendar" -> HasId(d.calendars, arg)
      [] op = "DeleteEvent" -> HasId(d.events, arg)
      [] op = "DeleteEventsByCalendar" -> HasId(d.calendars, arg)

IdleCaller == [pc |-> "idle", op |-> "none"]

\* A pool that opens a new connection whenever one is asked for.
ConnUnlimited == TRUE

\* db.SetMaxOpenConns(1): a statement waits until the connection is idle.
ConnAvailable == conn = NoCaller

LockIdle == UNCHANGED <<sync, syncAcc, log, now, startup, oauth, client, calc>>

\* A goroutine enters a write method.
Call(i, op) ==
    /\ callers[i].pc = "idle"
    /\ callers' = [callers EXCEPT ![i] =
                      [pc |-> IF op \in SaveOps THEN "lock" ELSE "conn", op |-> op]]
    /\ UNCHANGED <<db, last, result, mu, conn>>
    /\ LockIdle

\* s.mu.Lock()
Lock(i) ==
    /\ callers[i].pc = "lock"
    /\ mu = NoCaller
    /\ mu' = i
    /\ callers' = [callers EXCEPT ![i].pc = "conn"]
    /\ UNCHANGED <<db, last, result, conn>>
    /\ LockIdle

\* s.db.Exec(...): take the connection
Acquire(i) ==
    /\ callers[i].pc = "conn"
    /\ ConnAvailable
    /\ conn' = i
    /\ callers' = [callers EXCEPT ![i].pc = "exec"]
    /\ UNCHANGED <<db, last, result, mu>>
    /\ LockIdle

\* s.db.Exec(...): the statement runs and the connection goes back to the pool
Exec(i) ==
    /\ callers[i].pc = "exec"
    /\ LET op == callers[i].op
       IN /\ Write(op, IF op \in SaveOps THEN LockArg(op).id ELSE LockArg(op),
                   Existed(db, op, LockArg(op)), Statement(db, op, LockArg(op)))
          /\ callers' = [callers EXCEPT ![i] =
                            IF op \in SaveOps THEN [pc |-> "unlock", op |-> op]
                                               ELSE IdleCaller]
    /\ conn' = NoCaller
    /\ UNCHANGED mu
    /\ LockIdle

\* defer s.mu.Unlock()
Unlock(i) ==
    /\ callers[i].pc = "unlock"
    /\ mu' = NoCaller
    /\ callers' = [callers EXCEPT ![i] = IdleCaller]
    /\ UNCHANGED <<db, last, result, conn>>
    /\ LockIdle

LockInit ==
    /\ db = EmptyDB
    /\ last = Called("NewStore", NoId, FALSE, 0, FALSE)
    /\ result = <<>>
    /\ mu = NoCaller
    /\ conn = NoCaller
    /\ callers = [i \in Callers |-> IdleCaller]
    /\ NoSync

LockNext ==
    \E i \in Callers :
        \/ \E op \in SaveOps \cup DeleteOps : Call(i, op)
        \/ Lock(i)
        \/ Acquire(i)
        \/ Exec(i)
        \/ Unlock(i)

LockSpec == LockInit /\ [][LockNext]_vars

----------------------------------------------------------------------------
(* SyncSpec: the sync goroutine of an account, running against the         *)
(* provider's answers while the user deletes accounts and calendars        *)

MaxNow == 3

SyncAccountIds == {"a1"}
SyncAccountTypes == {"google", "caldav"}

\* time.Now().Add(time.Hour)
TokenLife == 1

\* The lifetimes (expires_in) a token refresh returns.
Lifetimes == {1, 2}

\* The tokens a Google authorisation returns.
Grants == {[access |-> "tok1", refresh |-> r] : r \in {"", "rt"}}

\* What a provider answers: the calendars of the account, the events of a calendar.
RemoteCalendarLists ==
    {s \in UNION {[1..k -> CalendarIds] : k \in 0..Cardinality(CalendarIds)} :
        \A m, n \in DOMAIN s : m # n => s[m] # s[n]}

RemoteItems == [id : EventIds, cancelled : BOOLEAN]

RemoteEventLists ==
    {s \in UNION {[1..k -> RemoteItems] : k \in 0..Cardinality(EventIds)} :
        \A m, n \in DOMAIN s : m # n => s[m].id # s[n].id}

SyncIdle == UNCHANGED <<mu, conn, callers, now, startup, oauth, client, calc>>
StoreUntouched == UNCHANGED <<db, last, result>>

At(a, pc) == sync[a].pc = pc
Goto(a, pc) == sync' = [sync EXCEPT ![a].pc = pc]
Logged(a, l) == log' = [log EXCEPT ![a] = l]

\* The calendar loop writes the last-sync instant right after the first calendar.
NextCalendarEarly(t) ==
    IF t.i < 1 /\ t.i < Len(t.cals)
    THEN [t EXCEPT !.pc = "saveCal", !.i = t.i + 1, !.items = <<>>, !.j = 0]
    ELSE [t EXCEPT !.pc = "lastSync", !.i = t.i + 1, !.items = <<>>, !.j = 0]

\* for _, cal := range calendars: on to the next listed calendar, or out of the loop
NextCalendar(t) ==
    IF t.i < Len(t.cals)
    THEN [t EXCEPT !.pc = "saveCal", !.i = t.i + 1, !.items = <<>>, !.j = 0]
    ELSE [t EXCEPT !.pc = "lastSync", !.i = t.i + 1, !.items = <<>>, !.j = 0]

\* On a failed SaveCalendar or event fetch the sync returns.
ContinueReturn(t) == [t EXCEPT !.pc = "done", !.items = <<>>, !.j = 0]

\* log.Printf(...); continue
Continue(t) == NextCalendar(t)

\* for _, event := range events: on to the next fetched event, or to the next calendar
NextEvent(t) ==
    IF t.j < Len(t.items) THEN [t EXCEPT !.j = t.j + 1] ELSE NextCalendar(t)

\* go app.syncCalDAVAccount(account)
StartSync(a, acc) ==
    /\ sync' = [sync EXCEPT ![a] = [IdleTask EXCEPT !.pc = "start"]]
    /\ syncAcc' = [syncAcc EXCEPT ![a] = acc]
    /\ log' = [log EXCEPT ![a] = EmptyLog]

\* The account dialog creates an Apple or CalDAV account, saves it, starts its sync.
AddCalDAVAccount(id) ==
    LET acc == Account(id, "caldav", 0)
        r == ExecSaveAccount(db, acc)
    IN /\ At(id, "idle")
       /\ ~HasId(db.accounts, id)
       /\ Write("SaveAccount", id, FALSE, r)
       /\ IF r.err THEN UNCHANGED <<sync, syncAcc, log>> ELSE StartSync(id, acc)
       /\ SyncIdle

\* The OAuth flow creates a Google account with the granted tokens, saves it,
\* starts its sync.
AddGoogleAccount(id, grant) ==
    LET acc == [Account(id, "google", 0) EXCEPT !.accessToken = grant.access,
                                                 !.refreshToken = grant.refresh,
                                                 !.tokenExpiry = now + TokenLife]
        r == ExecSaveAccount(db, acc)
    IN /\ At(id, "idle")
       /\ ~HasId(db.accounts, id)
       /\ Write("SaveAccount", id, FALSE, r)
       /\ IF r.err THEN UNCHANGED <<sync, syncAcc, log>> ELSE StartSync(id, acc)
       /\ SyncIdle

\* activate: go app.syncAllAccounts(), which syncs the stored Google accounts
\* that hold an access token.
StartupSync(a) ==
    /\ sync[a].pc \in {"idle", "done"}
    /\ \E acc \in db.accounts :
        /\ acc.id = a
        /\ acc.type = "google"
        /\ acc.accessToken # ""
        /\ StartSync(a, acc)
    /\ StoreUntouched
    /\ SyncIdle

\* syncGoogleCalendarAPI goes to the calendar list whatever the token expiry.
DispatchNoRefresh(a) ==
    /\ At(a, "start")
    /\ Goto(a, IF syncAcc[a].type = "google" THEN "list" ELSE "auth")
    /\ Logged(a, [log[a] EXCEPT
          !.expired = syncAcc[a].type = "google" /\ now > syncAcc[a].tokenExpiry])
    /\ UNCHANGED syncAcc
    /\ StoreUntouched
    /\ SyncIdle

\* syncCalDAVAccount hands a Google account to syncGoogleCalendarAPI, which
\* refreshes an expired token first; any other account authenticates over CalDAV.
Dispatch(a) ==
    /\ At(a, "start")
    /\ Goto(a, IF syncAcc[a].type = "google"
               THEN IF now > syncAcc[a].tokenExpiry THEN "refresh" ELSE "list"
               ELSE "auth")
    /\ Logged(a, [log[a] EXCEPT
          !.expired = syncAcc[a].type = "google" /\ now > syncAcc[a].tokenExpiry])
    /\ UNCHANGED syncAcc
    /\ StoreUntouched
    /\ SyncIdle

\* Without a refresh token the refresh is passed over and the sync goes on to
\* the calendar list with the token it has.
RefreshSkipped(a) ==
    /\ At(a, "refresh")
    /\ syncAcc[a].refreshToken = ""
    /\ Goto(a, "list")
    /\ UNCHANGED <<syncAcc, log>>
    /\ StoreUntouched
    /\ SyncIdle

\* refreshGoogleToken without a refresh token: an error before any request;
\* the sync returns.
RefreshUnavailable(a) ==
    /\ At(a, "refresh")
    /\ syncAcc[a].refreshToken = ""
    /\ Goto(a, "done")
    /\ Logged(a, [log[a] EXCEPT !.authFailed = TRUE])
    /\ UNCHANGED syncAcc
    /\ StoreUntouched
    /\ SyncIdle

\* The failed refresh is taken for a success: the sync goes on to the calendar list.
RefreshFailsIgnored(a) ==
    /\ At(a, "refresh")
    /\ syncAcc[a].refreshToken # ""
    /\ Goto(a, "list")
    /\ Logged(a, [log[a] EXCEPT !.refreshes = @ + 1, !.authFailed = TRUE])
    /\ UNCHANGED syncAcc
    /\ StoreUntouched
    /\ SyncIdle

\* refreshGoogleToken: the request to the token endpoint fails or is refused;
\* the sync returns.
RefreshFails(a) ==
    /\ At(a, "refresh")
    /\ syncAcc[a].refreshToken # ""
    /\ Goto(a, "done")
    /\ Logged(a, [log[a] EXCEPT !.refreshes = @ + 1, !.authFailed = TRUE])
    /\ UNCHANGED syncAcc
    /\ StoreUntouched
    /\ SyncIdle

\* The refreshed account is saved with an expiry that leaves out the returned
\* lifetime.
RefreshTokenNoLifetime(a, life) ==
    LET acc == [syncAcc[a] EXCEPT !.accessToken = "tok2", !.tokenExpiry = now]
        r == ExecSaveAccount(db, acc)
    IN /\ At(a, "refresh")
       /\ syncAcc[a].refreshToken # ""
       /\ syncAcc' = [syncAcc EXCEPT ![a] = acc]
       /\ Write("SaveAccount", a, HasId(db.accounts, a), r)
       /\ Goto(a, IF r.err THEN "done" ELSE "list")
       /\ Logged(a, [log[a] EXCEPT !.refreshes = @ + 1, !.authFailed = r.err])
       /\ SyncIdle

\* refreshGoogleToken succeeds: the new token, and the expiry time.Now() plus
\* the returned lifetime (expires_in), saved with the account.
RefreshToken(a, life) ==
    LET acc == [syncAcc[a] EXCEPT !.accessToken = "tok2",
                                  !.tokenExpiry = now + life]
        r == ExecSaveAccount(db, acc)
    IN /\ At(a, "refresh")
       /\ syncAcc[a].refreshToken # ""
       /\ syncAcc' = [syncAcc EXCEPT ![a] = acc]
       /\ Write("SaveAccount", a, HasId(db.accounts, a), r)
       /\ Goto(a, IF r.err THEN "done" ELSE "list")
       /\ Logged(a, [log[a] EXCEPT !.refreshes = @ + 1, !.authFailed = r.err])
       /\ SyncIdle

\* client.Authenticate: on failure the sync returns.
Authenticate(a, ok) ==
    /\ At(a, "auth")
    /\ Goto(a, IF ok THEN "list" ELSE "done")
    /\ Logged(a, [log[a] EXCEPT !.authFailed = ~ok])
    /\ UNCHANGED syncAcc
    /\ StoreUntouched
    /\ SyncIdle

\* The failed calendar list is taken for an empty one: the sync goes on to
\* write the last-sync instant.
ListFailsStamped(a) ==
    /\ At(a, "list")
    /\ Goto(a, "lastSync")
    /\ Logged(a, [log[a] EXCEPT !.requested = TRUE])
    /\ UNCHANGED syncAcc
    /\ StoreUntouched
    /\ SyncIdle

\* The calendar list cannot be fetched or decoded: the sync returns.
ListFails(a) ==
    /\ At(a, "list")
    /\ Goto(a, "done")
    /\ Logged(a, [log[a] EXCEPT !.requested = TRUE])
    /\ UNCHANGED syncAcc
    /\ StoreUntouched
    /\ SyncIdle

\* The provider lists the account's calendars.
ListCalendars(a, cals) ==
    /\ At(a, "list")
    /\ sync' = [sync EXCEPT ![a] = NextCalendar([@ EXCEPT !.cals = cals])]
    /\ Logged(a, [log[a] EXCEPT !.requested = TRUE, !.listed = TRUE])
    /\ UNCHANGED syncAcc
    /\ StoreUntouched
    /\ SyncIdle

\* app.store.SaveCalendar(cal) for the listed calendar; on error, continue.
SaveListedCalendar(a) ==
    LET t == sync[a]
        cal == Calendar(t.cals[t.i], syncAcc[a].id, TRUE)
        r == ExecSaveCalendar(db, cal)
    IN /\ At(a, "saveCal")
       /\ Write("SaveCalendar", cal.id, HasId(db.calendars, cal.id), r)
       /\ IF r.err
          THEN /\ sync' = [sync EXCEPT ![a] = Continue(t)]
               /\ Logged(a, [log[a] EXCEPT
                     !.tried = @ \cup {t.i},
                     !.failed = @ \cup {<<"SaveCalendar", t.i, 0>>}])
          ELSE /\ Goto(a, "fetch")
               /\ Logged(a, [log[a] EXCEPT !.tried = @ \cup {t.i}])
       /\ UNCHANGED syncAcc
       /\ SyncIdle

\* The events of the calendar cannot be fetched or decoded: on to the next calendar.
FetchFails(a) ==
    LET t == sync[a]
    IN /\ At(a, "fetch")
       /\ sync' = [sync EXCEPT ![a] = Continue(t)]
       /\ Logged(a, [log[a] EXCEPT
             !.asked = @ \cup {t.i},
             !.failed = @ \cup {<<"GetEvents", t.i, 0>>}])
       /\ UNCHANGED syncAcc
       /\ StoreUntouched
       /\ SyncIdle

\* The fetch first deletes the stored events of the calendar, so that only the
\* fetched ones remain.
FetchEventsClearing(a, items) ==
    LET t == sync[a]
        calId == t.cals[t.i]
    IN /\ At(a, "fetch")
       /\ Write("DeleteEventsByCalendar", calId, HasId(db.calendars, calId),
                ExecDeleteEventsByCalendar(db, calId))
       /\ sync' = [sync EXCEPT ![a] =
             NextEvent([t EXCEPT !.pc = "saveEv", !.items = items, !.j = 0])]
       /\ Logged(a, [log[a] EXCEPT
             !.asked = @ \cup {t.i},
             !.fetched = @ \cup {t.i},
             !.count = @ \cup {<<t.i, Len(items)>>}])
       /\ UNCHANGED syncAcc
       /\ SyncIdle

\* The provider returns the events of the calendar.
FetchEvents(a, items) ==
    LET t == sync[a]
    IN /\ At(a, "fetch")
       /\ sync' = [sync EXCEPT ![a] =
             NextEvent([t EXCEPT !.pc = "saveEv", !.items = items, !.j = 0])]
       /\ Logged(a, [log[a] EXCEPT
             !.asked = @ \cup {t.i},
             !.fetched = @ \cup {t.i},
             !.count = @ \cup {<<t.i, Len(items)>>}])
       /\ UNCHANGED syncAcc
       /\ StoreUntouched
       /\ SyncIdle

\* fetchGoogleEvents: if item.Status == "cancelled" { continue }
SkipCancelled(a) ==
    LET t == sync[a]
    IN /\ At(a, "saveEv")
       /\ syncAcc[a].type = "google"
       /\ t.items[t.j].cancelled
       /\ sync' = [sync EXCEPT ![a] = NextEvent(t)]
       /\ Logged(a, [log[a] EXCEPT !.skipped = @ \cup {<<t.i, t.j>>}])
       /\ UNCHANGED syncAcc
       /\ StoreUntouched
       /\ SyncIdle

\* app.store.SaveEvent(event) for the fetched event; an error is logged only.
SaveFetchedEvent(a) ==
    LET t == sync[a]
        item == t.items[t.j]
        ev == Event(item.id, t.cals[t.i], "t1", DayLen, DayLen + 1, item.cancelled)
        r == ExecSaveEvent(db, ev)
    IN /\ At(a, "saveEv")
       /\ ~(syncAcc[a].type = "google" /\ item.cancelled)
       /\ Write("SaveEvent", ev.id, HasId(db.events, ev.id), r)
       /\ sync' = [sync EXCEPT ![a] = NextEvent(t)]
       /\ Logged(a, [log[a] EXCEPT
             !.offered = @ \cup {<<t.i, t.j>>},
             !.failed = IF r.err THEN @ \cup {<<"SaveEvent", t.i, t.j>>} ELSE @])
       /\ UNCHANGED syncAcc
       /\ SyncIdle

\* account.LastSync = time.Now(); app.store.SaveAccount(account)
UpdateLastSync(a) ==
    LET acc == [syncAcc[a] EXCEPT !.lastSync = now]
        r == ExecSaveAccount(db, acc)
    IN /\ At(a, "lastSync")
       /\ syncAcc' = [syncAcc EXCEPT ![a] = acc]
       /\ Write("SaveAccount", a, HasId(db.accounts, a), r)
       /\ Goto(a, "done")
       /\ Logged(a, [log[a] EXCEPT !.synced = TRUE])
       /\ SyncIdle

\* One step of the sync goroutine of account a.
SyncStep(a) ==
    \/ Dispatch(a)
    \/ RefreshUnavailable(a)
    \/ RefreshFails(a)
    \/ \E life \in Lifetimes : RefreshToken(a, life)
    \/ \E ok \in BOOLEAN : Authenticate(a, ok)
    \/ ListFails(a)
    \/ \E cals \in RemoteCalendarLists : ListCalendars(a, cals)
    \/ SaveListedCalendar(a)
    \/ FetchFails(a)
    \/ \E items \in RemoteEventLists : FetchEvents(a, items)
    \/ SkipCancelled(a)
    \/ SaveFetchedEvent(a)
    \/ UpdateLastSync(a)

\* Time passes.
Tick ==
    /\ now < MaxNow
    /\ now' = now + 1
    /\ UNCHANGED <<db, last, result, mu, conn, callers, sync, syncAcc, log,
                   startup, oauth, client, calc>>

SyncInit == InitCommon

SyncNext ==
    \/ \E a \in SyncAccountIds : AddCalDAVAccount(a)
    \/ \E a \in SyncAccountIds, g \in Grants : AddGoogleAccount(a, g)
    \/ \E a \in SyncAccountIds : StartupSync(a)
    \/ \E a \in SyncAccountIds : SyncStep(a)
    \/ \E id \in SyncAccountIds : DeleteAccount(id)
    \/ \E id \in CalendarIds : DeleteCalendar(id)
    \/ Tick

SyncSpec == SyncInit /\ [][SyncNext]_vars

----------------------------------------------------------------------------
(* StartupSpec: activate starts syncAllAccounts, which walks the stored    *)
(* accounts and runs the sync of one after the other                       *)

\* The accounts a Store file can hold when the process starts.
StoredGoogleAccounts(id) ==
    {[Account(id, "google", 0) EXCEPT !.enabled = en, !.accessToken = tok,
                                      !.refreshToken = c[1], !.tokenExpiry = c[2]] :
        en \in BOOLEAN, tok \in {"", "tok1"},
        c \in {<<"rt", 2>>, <<"rt", 0>>, <<"", 0>>}}

StoredCalDAVAccounts(id) ==
    {[Account(id, "caldav", 0) EXCEPT !.enabled = en] : en \in BOOLEAN}

\* No row or one row with the identifier.
StoredWithId(id) ==
    {{}} \cup {{r} : r \in StoredGoogleAccounts(id) \cup StoredCalDAVAccounts(id)}

StoredAccountSets == {S1 \cup S2 : S1 \in StoredWithId("a1"), S2 \in StoredWithId("a2")}

\* What the provider answers for the account at start: its one calendar with
\* one event.
OwnCalendar(a) == IF a = "a1" THEN "c1" ELSE "c2"
OwnEvent(a) == IF a = "a1" THEN "e1" ELSE "e2"
StartupCalendarLists(a) == {<<OwnCalendar(a)>>}
StartupEventLists(a) == {<<[id |-> OwnEvent(a), cancelled |-> FALSE]>>}

\* Every order in which a query can return the rows.
Orders(S) ==
    {q \in [1..Cardinality(S) -> S] : \A m, n \in DOMAIN q : m # n => q[m] # q[n]}

StartupIdle == UNCHANGED <<db, last, result, mu, conn, callers, now, oauth, client, calc>>

\* if account.Type == calendar.AccountTypeGoogle && account.AccessToken != ""
DueAtStart(acc) == acc.type = "google" /\ acc.accessToken # ""

\* activate: go app.syncAllAccounts(), which loads the accounts.
Activate ==
    /\ startup.pc = "idle"
    /\ \E q \in Orders(db.accounts) :
          startup' = [IdleStartup EXCEPT !.pc = "loop", !.loaded = db.accounts,
                                         !.queue = q]
    /\ UNCHANGED <<sync, syncAcc, log>>
    /\ StartupIdle

\* The loop passes over an account that is not a Google account with a token.
SyncAllSkip ==
    /\ startup.pc = "loop"
    /\ startup.queue # <<>>
    /\ ~DueAtStart(Head(startup.queue))
    /\ startup' = [startup EXCEPT !.queue = Tail(@)]
    /\ UNCHANGED <<sync, syncAcc, log>>
    /\ StartupIdle

\* The loop calls app.syncCalDAVAccount(account) and is inside it until it returns.
SyncAllCall ==
    LET acc == Head(startup.queue)
    IN /\ startup.pc = "loop"
       /\ startup.queue # <<>>
       /\ DueAtStart(acc)
       /\ StartSync(acc.id, acc)
       /\ startup' = [startup EXCEPT !.pc = "sync", !.queue = Tail(@),
                                     !.cur = acc.id, !.ran[acc.id] = @ + 1]
       /\ StartupIdle

\* The loop ends when the sync of an account returns on an authentication failure.
SyncAllReturnAbort ==
    /\ startup.pc = "sync"
    /\ sync[startup.cur].pc = "done"
    /\ startup' = [startup EXCEPT
          !.pc = IF log[startup.cur].authFailed THEN "done" ELSE "loop",
          !.cur = NoId]
    /\ UNCHANGED <<sync, syncAcc, log>>
    /\ StartupIdle

\* app.syncCalDAVAccount(account) returns: on to the next account.
SyncAllReturn ==
    /\ startup.pc = "sync"
    /\ sync[startup.cur].pc = "done"
    /\ startup' = [startup EXCEPT !.pc = "loop", !.cur = NoId]
    /\ UNCHANGED <<sync, syncAcc, log>>
    /\ StartupIdle

\* The loop is over: syncAllAccounts returns.
SyncAllDone ==
    /\ startup.pc = "loop"
    /\ startup.queue = <<>>
    /\ startup' = [startup EXCEPT !.pc = "done"]
    /\ UNCHANGED <<sync, syncAcc, log>>
    /\ StartupIdle

\* One step of the sync of account a, called from the loop.
StartupSyncStep(a) ==
    \/ Dispatch(a)
    \/ RefreshUnavailable(a)
    \/ RefreshFails(a)
    \/ \E life \in Lifetimes : RefreshToken(a, life)
    \/ ListFails(a)
    \/ \E cals \in StartupCalendarLists(a) : ListCalendars(a, cals)
    \/ SaveListedCalendar(a)
    \/ FetchFails(a)
    \/ \E items \in StartupEventLists(a) : FetchEvents(a, items)
    \/ SaveFetchedEvent(a)
    \/ UpdateLastSync(a)

StartupInit ==
    /\ db \in {[EmptyDB EXCEPT !.accounts = S] : S \in StoredAccountSets}
    /\ last = Called("NewStore", NoId, FALSE, 0, FALSE)
    /\ result = <<>>
    /\ mu = NoCaller
    /\ conn = NoCaller
    /\ callers = <<>>
    /\ NoSync

StartupNext ==
    \/ Activate
    \/ SyncAllSkip
    \/ SyncAllCall
    \/ SyncAllReturn
    \/ SyncAllDone
    \/ \E a \in AccountIds : StartupSyncStep(a)

StartupSpec == StartupInit /\ [][StartupNext]_vars

----------------------------------------------------------------------------
(* TokenSpec: the syncs of one Google account as time passes and its token *)
(* expires, against a provider that lists one calendar with one event      *)

TokenInit == InitCommon

TokenNext ==
    \/ \E a \in SyncAccountIds, g \in Grants : AddGoogleAccount(a, g)
    \/ \E a \in SyncAccountIds : StartupSync(a)
    \/ \E a \in SyncAccountIds : StartupSyncStep(a)
    \/ \E id \in SyncAccountIds : DeleteAccount(id)
    \/ Tick

TokenSpec == TokenInit /\ [][TokenNext]_vars

----------------------------------------------------------------------------
(* OAuthSpec: the wait for the OAuth redirect, in the application's        *)
(* startGoogleOAuth and in OAuthCallbackServer                             *)

MaxCallbacks == 3
MaxWaits == 2

OAuthIdle ==
    UNCHANGED <<db, last, result, mu, conn, callers, sync, syncAcc, log, now,
                startup, client, calc>>

\* handleCallback of OAuthCallbackServer: the code, or an error made of the
\* error parameter.
HandleCallback(q, auth, nth) ==
    IF q.code # ""
    THEN Msg("code", q.code, q, auth, nth)
    ELSE Msg("error",
             IF q.error # "" THEN q.error ELSE "no authorization code received",
             q, auth, nth)

\* The handler startGoogleOAuth installs: the code, or a fixed error.
AppHandler(q, auth, nth) ==
    IF q.code # ""
    THEN Msg("code", q.code, q, auth, nth)
    ELSE Msg("error", "no code received", q, auth, nth)

\* A value leaves the pending events when the waiter gets it; the timer (the
\* context) of a wait ends with the wait.
Without(s, m) == SelectSeq(s, LAMBDA x : x # m /\ x.kind # "timeout")

\* The waiter's select completes with m. Noted with it: the wait, whether
\* the waiter was blocked in the select when m came, and whether m is the
\* oldest of the pending events.
Deliver(o, m) ==
    [o EXCEPT !.pc = "got",
              !.timer = "off",
              !.pending = Without(@, m),
              !.delivered = Append(@, [msg |-> m, wait |-> o.waits,
                                       waiting |-> o.pc = "blocked",
                                       first |-> Head(o.pending) = m])]

\* ch <- m on a channel of capacity one: handed to the waiter blocked in its
\* select, else buffered, else the sending goroutine blocks.
Send(o, m) ==
    LET p == [o EXCEPT !.pending = Append(@, m)]
    IN IF o.pc = "blocked" THEN Deliver(p, m)
       ELSE IF m.kind = "code"
            THEN IF o.codeChan = <<>>
                 THEN [p EXCEPT !.codeChan = <<m>>]
                 ELSE [p EXCEPT !.blockedCode = Append(@, m)]
            ELSE IF o.errChan = <<>>
                 THEN [p EXCEPT !.errChan = <<m>>]
                 ELSE [p EXCEPT !.blockedErr = Append(@, m)]

\* <-ch on the channel of the chosen kind: the buffered value is taken and the
\* first blocked sender's value moves into the buffer.
Receive(o, kind) ==
    IF kind = "code"
    THEN Deliver([o EXCEPT
                     !.codeChan = IF o.blockedCode = <<>> THEN <<>>
                                  ELSE <<Head(o.blockedCode)>>,
                     !.blockedCode = IF @ = <<>> THEN <<>> ELSE Tail(@)],
                 o.codeChan[1])
    ELSE IF kind = "error"
    THEN Deliver([o EXCEPT
                     !.errChan = IF o.blockedErr = <<>> THEN <<>>
                                 ELSE <<Head(o.blockedErr)>>,
                     !.blockedErr = IF @ = <<>> THEN <<>> ELSE Tail(@)],
                 o.errChan[1])
    ELSE Deliver(o, Msg("timeout", "", NoQuery, o.waits, 0))

\* The cases of the select that can proceed.
Ready(o) ==
    {k \in {"code"} : o.codeChan # <<>>}
        \cup {k \in {"error"} : o.errChan # <<>>}
        \cup {k \in {"timeout"} : o.timer = "fired"}

\* startGoogleOAuth where openBrowser returns an error: the server goroutine
\* has been started and the function returns; there is no waiting goroutine and
\* no Shutdown. A server that could listen keeps the redirect port.
OpenBrowserFails(listens) ==
    LET o == [NoOAuth EXCEPT !.impl = "app", !.serving = listens, !.pc = "idle",
                             !.held = oauth.held \/ listens,
                             !.waits = oauth.waits,
                             !.callbacks = oauth.callbacks,
                             !.delivered = oauth.delivered,
                             !.exchanges = oauth.exchanges,
                             !.accounts = oauth.accounts]
    IN /\ oauth.impl \in {"none", "app"}
       /\ oauth.pc \in {"idle", "closed"}
       /\ listens => ~oauth.held
       /\ oauth' = IF listens THEN o
                   ELSE Send(o, Msg("error", "listen", NoQuery, o.waits, 0))
       /\ OAuthIdle

\* startGoogleOAuth: new channels, a new server on the redirect port, the
\* browser opened, the waiting goroutine started. ListenAndServe may fail (it
\* does when the port is held), and then sends its error.
StartGoogleOAuth(listens) ==
    LET o == [NoOAuth EXCEPT !.impl = "app", !.serving = listens, !.pc = "select",
                             !.held = oauth.held,
                             !.waits = oauth.waits + 1,
                             !.callbacks = oauth.callbacks,
                             !.delivered = oauth.delivered,
                             !.exchanges = oauth.exchanges,
                             !.accounts = oauth.accounts]
    IN /\ oauth.impl \in {"none", "app"}
       /\ oauth.pc \in {"idle", "closed"}
       /\ oauth.waits < MaxWaits
       /\ listens => ~oauth.held
       /\ oauth' = IF listens THEN o
                   ELSE Send(o, Msg("error", "listen", NoQuery, o.waits, 0))
       /\ OAuthIdle

\* NewOAuthCallbackServer and Start.
StartServer ==
    /\ oauth.impl = "none"
    /\ oauth' = [NoOAuth EXCEPT !.impl = "server", !.serving = TRUE]
    /\ OAuthIdle

\* WaitForCode(ctx) is called, for the next authorization attempt.
WaitForCode ==
    /\ oauth.impl = "server"
    /\ oauth.pc = "idle"
    /\ oauth.waits < MaxWaits
    /\ oauth' = [oauth EXCEPT !.pc = "select", !.waits = @ + 1, !.timer = "running"]
    /\ OAuthIdle

\* A request to /callback reaches the listener; it answers attempt auth.
Callback(q, auth) ==
    LET nth == Cardinality({n \in DOMAIN oauth.callbacks : oauth.callbacks[n] = auth}) + 1
        m == IF oauth.impl = "server" THEN HandleCallback(q, auth, nth)
             ELSE AppHandler(q, auth, nth)
    IN /\ oauth.serving
       /\ auth \in 1..oauth.waits
       /\ Len(oauth.callbacks) < MaxCallbacks
       /\ oauth' = Send([oauth EXCEPT !.callbacks = Append(@, auth)], m)
       /\ OAuthIdle

\* The waiter reaches its select: with a case that can proceed it takes one of
\* them, any; with none it blocks (in startGoogleOAuth the timer starts here).
Select ==
    /\ oauth.pc = "select"
    /\ IF Ready(oauth) = {}
       THEN oauth' = [oauth EXCEPT !.pc = "blocked", !.timer = "running"]
       ELSE \E k \in Ready(oauth) : oauth' = Receive(oauth, k)
    /\ OAuthIdle

\* time.After(5 * time.Minute) fires, or ctx is done.
TimerFires ==
    LET m == Msg("timeout", "", NoQuery, oauth.waits, 0)
        o == [oauth EXCEPT !.timer = "fired", !.pending = Append(@, m)]
    IN /\ oauth.timer = "running"
       /\ oauth' = IF oauth.pc = "blocked" THEN Deliver(o, m) ELSE o
       /\ OAuthIdle

\* startGoogleOAuth, case code: exchangeGoogleCode, and on success the account
\* is created.
Exchange(ok) ==
    /\ oauth.impl = "app"
    /\ oauth.pc = "got"
    /\ oauth.delivered[Len(oauth.delivered)].msg.kind = "code"
    /\ oauth' = [oauth EXCEPT !.pc = "exchanged", !.exchanges = @ + 1,
                              !.accounts = IF ok THEN @ + 1 ELSE @]
    /\ OAuthIdle

\* The deferred Shutdown returns without closing the listener.
ShutdownLeavesOpen ==
    /\ oauth.impl = "app"
    /\ \/ oauth.pc = "exchanged"
       \/ /\ oauth.pc = "got"
          /\ oauth.delivered[Len(oauth.delivered)].msg.kind # "code"
    /\ oauth' = [oauth EXCEPT !.pc = "closed"]
    /\ OAuthIdle

\* defer server.Shutdown(context.Background()): the listener is closed.
Shutdown ==
    /\ oauth.impl = "app"
    /\ \/ oauth.pc = "exchanged"
       \/ /\ oauth.pc = "got"
          /\ oauth.delivered[Len(oauth.delivered)].msg.kind # "code"
    /\ oauth' = [oauth EXCEPT !.pc = "closed", !.serving = FALSE]
    /\ OAuthIdle

\* WaitForCode returns its outcome to the caller.
Return ==
    /\ oauth.impl = "server"
    /\ oauth.pc = "got"
    /\ oauth' = [oauth EXCEPT !.pc = "idle"]
    /\ OAuthIdle

\* OAuthCallbackServer.Stop
Stop ==
    /\ oauth.impl = "server"
    /\ oauth.pc = "idle"
    /\ oauth.serving
    /\ oauth' = [oauth EXCEPT !.serving = FALSE]
    /\ OAuthIdle

OAuthInit == InitCommon

OAuthNext ==
    \/ \E listens \in BOOLEAN : StartGoogleOAuth(listens)
    \/ \E listens \in BOOLEAN : OpenBrowserFails(listens)
    \/ StartServer
    \/ WaitForCode
    \/ \E q \in Queries, auth \in 1..MaxWaits : Callback(q, auth)
    \/ Select
    \/ TimerFires
    \/ \E ok \in BOOLEAN : Exchange(ok)
    \/ Shutdown
    \/ Return
    \/ Stop

OAuthSpec == OAuthInit /\ [][OAuthNext]_vars

----------------------------------------------------------------------------
(* ClientSpec: one provider client (CalDAV or Google), its Authenticate    *)
(* and its operations                                                      *)

ProviderOps == {"ListCalendars", "GetEvents", "CreateEvent", "UpdateEvent", "DeleteEvent"}

\* account.AccessToken of a Google client: none, one that is not the JSON of
\* an oauth2.Token, one that is.
ClientTokens == {"", "raw", "json"}

ClientIdle ==
    UNCHANGED <<db, last, result, mu, conn, callers, sync, syncAcc, log, now,
                startup, oauth, calc>>

\* The client after a call: whether its HTTP client is set, and what the call
\* returned.
Returned(c, ready, op, res) ==
    [c EXCEPT !.ready = ready, !.op = op, !.result = res,
              !.authOk = @ \/ (op = "Authenticate" /\ res = "ok"),
              !.authErr = @ \/ (op = "Authenticate" /\ res # "ok")]

\* caldav.NewClient(account)
NewCalDAVClient(type) ==
    /\ client' = [NoClient EXCEPT !.variant = "caldav", !.type = type]
    /\ ClientIdle

\* google.NewClient(account, cfg)
NewGoogleClient(token) ==
    /\ client' = [NoClient EXCEPT !.variant = "google", !.type = "google",
                                  !.token = token]
    /\ ClientIdle

\* caldav Client.Authenticate: the CalDAV client is built from the server URL
\* and kept, then (but for Google) the calendar home set is looked up.
CalDAVAuthenticate(urlOk, homeOk) ==
    /\ client.variant = "caldav"
    /\ client' =
          IF ~urlOk
          THEN Returned(client, client.ready, "Authenticate", "failed to create CalDAV client")
          ELSE IF client.type = "google" \/ homeOk
          THEN Returned(client, TRUE, "Authenticate", "ok")
          ELSE Returned(client, TRUE, "Authenticate", "failed to authenticate")
    /\ ClientIdle

\* google Client.SetToken: the HTTP client is set when the token parses.
SetToken(token) ==
    /\ client.variant = "google"
    /\ client' =
          IF token = "json"
          THEN Returned(client, TRUE, "SetToken", "ok")
          ELSE Returned(client, client.ready, "SetToken", "failed to parse token")
    /\ ClientIdle

\* google Client.Authenticate: SetToken of the account's access token.
GoogleAuthenticate ==
    /\ client.variant = "google"
    /\ client' =
          IF client.token = ""
          THEN Returned(client, client.ready, "Authenticate", "no access token")
          ELSE IF client.token = "json"
          THEN Returned(client, TRUE, "Authenticate", "ok")
          ELSE Returned(client, client.ready, "Authenticate", "invalid saved token")
    /\ ClientIdle

\* google Client.ExchangeCode: on success the HTTP client is set and the token
\* is put on the account.
ExchangeCode(ok) ==
    /\ client.variant = "google"
    /\ client' =
          IF ok
          THEN [Returned(client, TRUE, "ExchangeCode", "ok") EXCEPT !.token = "json"]
          ELSE Returned(client, client.ready, "ExchangeCode", "failed to exchange code")
    /\ ClientIdle

\* ListCalendars, GetEvents, CreateEvent, UpdateEvent, DeleteEvent: "not
\* authenticated" when the client is not set, else the request.
Operation(op, netOk) ==
    /\ client.variant # "none"
    /\ client' =
          IF ~client.ready
          THEN Returned(client, client.ready, op, "not authenticated")
          ELSE IF client.variant = "google" /\ op = "UpdateEvent"
          THEN Returned(client, client.ready, op, "update not implemented")
          ELSE IF netOk
          THEN Returned(client, client.ready, op, "ok")
          ELSE Returned(client, client.ready, op, "request failed")
    /\ ClientIdle

ClientInit == InitCommon

ClientNext ==
    \/ \E type \in {"google", "caldav"} : NewCalDAVClient(type)
    \/ \E token \in ClientTokens : NewGoogleClient(token)
    \/ \E urlOk, homeOk \in BOOLEAN : CalDAVAuthenticate(urlOk, homeOk)
    \/ \E token \in ClientTokens \ {""} : SetToken(token)
    \/ GoogleAuthenticate
    \/ \E ok \in BOOLEAN : ExchangeCode(ok)
    \/ \E op \in ProviderOps, netOk \in BOOLEAN : Operation(op, netOk)

ClientSpec == ClientInit /\ [][ClientNext]_vars

----------------------------------------------------------------------------
(* ProviderSpec: GetEvents of the two provider clients and the iCalendar   *)
(* codec of the CalDAV client, each applied to an input drawn at the start *)

MaxText == 2
MaxDay == 1
MaxSec == 1
MaxNano == 1
MaxBatch == 2

\* A time.Time: the day, the second of the day, the fraction of the second.
Time(day, sec, nano) == [day |-> day, sec |-> sec, nano |-> nano]

\* time.Time{}
ZeroTime == Time(0, 0, 0)

Times == [day : 0..MaxDay, sec : 0..MaxSec, nano : 0..MaxNano]

\* A string as the sequence of its characters; the comma is one of the
\* characters an iCalendar TEXT value escapes.
Chars == {"a", ","}
Texts == UNION {[1..k -> Chars] : k \in 0..MaxText}

\* strings.NewReplacer("\\", "\\\\", "\n", "\\n", ";", "\;", ",", "\\,")
RECURSIVE Escape(_)
Escape(text) ==
    IF text = <<>> THEN <<>>
    ELSE (IF Head(text) \in {"\\", ";", ","} THEN <<"\\", Head(text)>>
          ELSE <<Head(text)>>) \o Escape(Tail(text))

\* A property of a component: whether it is there, its VALUE parameter being
\* DATE, whether its value parses as a date or a date-time, and its value.
NoProp == [set |-> FALSE, date |-> FALSE, ok |-> TRUE, value |-> <<>>]

\* Props.SetText: the value is the escaped text.
SetText(text) == [NoProp EXCEPT !.set = TRUE, !.value = Escape(text)]

\* Props.SetDateTime: the value is the time formatted to the second.
SetDateTime(t) == [NoProp EXCEPT !.set = TRUE, !.value = <<t.day, t.sec>>]

\* Props.SetDate: VALUE=DATE, the value is the time formatted to the day.
SetDate(t) == [NoProp EXCEPT !.set = TRUE, !.date = TRUE, !.value = <<t.day>>]

\* Prop.DateTime(nil): the time parsed from the value, or an error.
DateTime(prop) ==
    IF ~prop.ok THEN [t |-> ZeroTime, err |-> TRUE]
    ELSE IF Len(prop.value) = 1
    THEN [t |-> Time(prop.value[1], 0, 0), err |-> FALSE]
    ELSE [t |-> Time(prop.value[1], prop.value[2], 0), err |-> FALSE]

\* The properties of a new component.
NoProps ==
    [uid |-> NoProp, summary |-> NoProp, description |-> NoProp, location |-> NoProp,
     dtstart |-> NoProp, dtend |-> NoProp, status |-> NoProp]

\* calendar.Event, as the providers fill it.
ProviderEvent(id, calendarId) ==
    [id |-> id, uid |-> id, calendar_id |-> calendarId, title |-> <<>>,
     description |-> <<>>, location |-> <<>>, start |-> ZeroTime, end |-> ZeroTime,
     allDay |-> FALSE, status |-> "", cancelled |-> FALSE]

NoEvent == ProviderEvent(NoId, NoId)

\* switch event.Status: the STATUS property of the three statuses, else none
StatusProp(status) ==
    CASE status = "confirmed" -> SetText(<<"CONFIRMED">>)
      [] status = "tentative" -> SetText(<<"TENTATIVE">>)
      [] status = "cancelled" -> SetText(<<"CANCELLED">>)
      [] OTHER -> NoProp

\* switch prop.Value: the status a STATUS property stands for, else the one given
StatusOf(prop, status) ==
    CASE prop.value = <<"CONFIRMED">> -> "confirmed"
      [] prop.value = <<"TENTATIVE">> -> "tentative"
      [] prop.value = <<"CANCELLED">> -> "cancelled"
      [] OTHER -> status

\* eventToICal: a VCALENDAR with one VEVENT made of the event's fields.
eventToICal(event) ==
    LET vevent ==
          [name |-> "VEVENT",
           props |-> [NoProps EXCEPT
              !.uid = SetText(<<event.uid>>),
              !.summary = SetText(event.title),
              !.description = IF event.description # <<>>
                              THEN SetText(event.description) ELSE NoProp,
              !.location = IF event.location # <<>>
                           THEN SetText(event.location) ELSE NoProp,
              !.dtstart = IF event.allDay THEN SetDate(event.start)
                          ELSE SetDateTime(event.start),
              !.dtend = IF event.allDay THEN SetDate(event.end)
                        ELSE SetDateTime(event.end),
              !.status = StatusProp(event.status)]]
    IN [data |-> TRUE, children |-> <<vevent>>]

\* The event parseICalEvent makes of a VEVENT component.
ParseComponent(component, calendarID) ==
    LET p == component.props
        e0 == [ProviderEvent("", calendarID) EXCEPT !.status = "confirmed"]
        e1 == IF p.uid.set THEN [e0 EXCEPT !.uid = p.uid.value[1], !.id = p.uid.value[1]]
              ELSE e0
        e2 == IF p.summary.set THEN [e1 EXCEPT !.title = p.summary.value] ELSE e1
        e3 == IF p.description.set THEN [e2 EXCEPT !.description = p.description.value]
              ELSE e2
        e4 == IF p.location.set THEN [e3 EXCEPT !.location = p.location.value] ELSE e3
        e5 == IF p.dtstart.set
              THEN [e4 EXCEPT
                      !.start = IF DateTime(p.dtstart).err THEN @ ELSE DateTime(p.dtstart).t,
                      !.allDay = p.dtstart.date]
              ELSE e4
        e6 == IF p.dtend.set /\ ~DateTime(p.dtend).err
              THEN [e5 EXCEPT !.end = DateTime(p.dtend).t] ELSE e5
    IN IF p.status.set
       THEN [e6 EXCEPT !.status = StatusOf(p.status, @),
                       !.cancelled = p.status.value = <<"CANCELLED">>]
       ELSE e6

\* parseICalEvent that fails on a date field that does not parse.
parseICalEventStrict(obj, calendarID) ==
    LET events == SelectSeq(obj.children, LAMBDA c : c.name = "VEVENT")
    IN IF ~obj.data THEN [event |-> NoEvent, err |-> "no data in calendar object"]
       ELSE IF events = <<>> THEN [event |-> NoEvent, err |-> "no VEVENT found"]
       ELSE IF \/ events[1].props.dtstart.set /\ DateTime(events[1].props.dtstart).err
               \/ events[1].props.dtend.set /\ DateTime(events[1].props.dtend).err
       THEN [event |-> NoEvent, err |-> "invalid date"]
       ELSE [event |-> ParseComponent(events[1], calendarID), err |-> ""]

\* parseICalEvent: the event of the first VEVENT component of the object.
parseICalEvent(obj, calendarID) ==
    LET events == SelectSeq(obj.children, LAMBDA c : c.name = "VEVENT")
    IN IF ~obj.data THEN [event |-> NoEvent, err |-> "no data in calendar object"]
       ELSE IF events = <<>> THEN [event |-> NoEvent, err |-> "no VEVENT found"]
       ELSE [event |-> ParseComponent(events[1], calendarID), err |-> ""]

\* caldav Client.GetEvents: "not authenticated" without a CalDAV client, the
\* error of a failed query, else the events of the objects that parse.
RECURSIVE ParseAll(_, _)
ParseAll(objects, calendarID) ==
    IF objects = <<>> THEN <<>>
    ELSE LET r == parseICalEvent(Head(objects), calendarID)
         IN (IF r.err # "" THEN <<>> ELSE <<r.event>>)
            \o ParseAll(Tail(objects), calendarID)

CalDAVGetEvents(answer, calendarID) ==
    IF ~answer.ready THEN [events |-> <<>>, err |-> "not authenticated"]
    ELSE IF ~answer.ok THEN [events |-> <<>>, err |-> "failed to query events"]
    ELSE [events |-> ParseAll(answer.objects, calendarID), err |-> ""]

\* switch item.Status of google Client.GetEvents
GoogleEvent(item, calendarID) ==
    [ProviderEvent(item.id, calendarID) EXCEPT
        !.status = IF item.status \in {"confirmed", "tentative", "cancelled"}
                   THEN item.status ELSE "",
        !.cancelled = item.status = "cancelled"]

\* google Client.GetEvents: "not authenticated" without an HTTP client, the
\* error of a failed request, else one event for every item of the answer.
GoogleGetEvents(answer, calendarID) ==
    IF ~answer.ready THEN [events |-> <<>>, err |-> "not authenticated"]
    ELSE IF ~answer.ok THEN [events |-> <<>>, err |-> "failed to fetch events"]
    ELSE [events |-> [k \in 1..Len(answer.items) |-> GoogleEvent(answer.items[k], calendarID)],
          err |-> ""]

\* The inputs: events to encode (every text with the zero times, every pair of
\* times with one text), objects to decode, answers of the servers.
CodecEvents ==
    {[ProviderEvent("e1", "c1") EXCEPT
          !.title = f[1], !.description = f[2], !.location = f[3],
          !.allDay = b[1], !.cancelled = b[2], !.status = st] :
        f \in Texts \X {<<>>, <<",">>} \X {<<>>, <<"a">>},
        b \in BOOLEAN \X BOOLEAN, st \in {"", "confirmed", "tentative", "cancelled"}}
    \cup
    {[ProviderEvent("e1", "c1") EXCEPT
          !.title = <<"a">>, !.start = t[1], !.end = t[2], !.allDay = b,
          !.status = "confirmed"] :
        t \in Times \X Times, b \in BOOLEAN}

\* A date property a server sends: a date-time, a date, either one unparseable.
ServerDates ==
    {SetDateTime(Time(MaxDay, MaxSec, 0)), SetDate(Time(MaxDay, 0, 0)),
     [SetDateTime(ZeroTime) EXCEPT !.ok = FALSE], [SetDate(ZeroTime) EXCEPT !.ok = FALSE]}

Components ==
    {[name |-> "VTIMEZONE", props |-> NoProps]} \cup
    {[name |-> "VEVENT",
      props |-> [NoProps EXCEPT !.uid = SetText(<<id>>), !.summary = SetText(<<"a">>),
                                !.dtstart = ds, !.dtend = de, !.status = st]] :
        id \in EventIds, ds \in ServerDates,
        de \in {SetDateTime(Time(MaxDay, MaxSec, 0)),
                [SetDateTime(ZeroTime) EXCEPT !.ok = FALSE]},
        st \in {NoProp, SetText(<<"CANCELLED">>)}}

CalendarObjects ==
    [data : BOOLEAN, children : UNION {[1..k -> Components] : k \in 0..2}]

\* The objects of a query answer: without data, without a VEVENT, with a VEVENT
\* (one cancelled, one with a start that does not parse).
BatchObjects ==
    {o \in CalendarObjects :
        /\ Len(o.children) <= 1
        /\ \A k \in DOMAIN o.children :
              /\ o.children[k].props.dtend.ok
              /\ o.children[k].props.dtstart.date = FALSE
              /\ o.children[k].props.uid.value = <<"e1">>
                    <=> o.children[k].props.status.set
        /\ ~o.data => o.children = <<>>}

QueryAnswers ==
    [ready : BOOLEAN, ok : BOOLEAN,
     objects : UNION {[1..k -> BatchObjects] : k \in 0..MaxBatch}]

ApiItems == [id : EventIds, status : {"confirmed", "tentative", "cancelled", ""}]

ApiAnswers ==
    [ready : BOOLEAN, ok : BOOLEAN,
     items : {s \in UNION {[1..k -> ApiItems] : k \in 0..MaxBatch} :
                 \A m, n \in DOMAIN s : m # n => s[m].id # s[n].id}]

\* An input waiting for its function.
Input(kind, x) == [fn |-> kind, kind |-> kind, first |-> x, in |-> x, out |-> <<>>]

\* The call made and what it returned; kind and first are the input the calls
\* began with.
Applied(fn, x, y) ==
    [fn |-> fn, kind |-> calc.kind, first |-> calc.first, in |-> x, out |-> y]

ProviderIdle ==
    UNCHANGED <<db, last, result, mu, conn, callers, sync, syncAcc, log, now,
                startup, oauth, client>>

EventToICal ==
    /\ calc.fn = "event"
    /\ calc' = Applied("eventToICal", calc.in, eventToICal(calc.in))
    /\ ProviderIdle

\* parseICalEvent of an object a server sent, or of the one eventToICal made.
ParseICalEvent ==
    /\ calc.fn \in {"object", "eventToICal"}
    /\ LET obj == IF calc.fn = "object" THEN calc.in ELSE calc.out
       IN calc' = Applied("parseICalEvent", obj, parseICalEvent(obj, "c1"))
    /\ ProviderIdle

GetCalDAVEvents ==
    /\ calc.fn = "answer"
    /\ calc' = Applied("caldav.GetEvents", calc.in, CalDAVGetEvents(calc.in, "c1"))
    /\ ProviderIdle

GetGoogleEvents ==
    /\ calc.fn = "items"
    /\ calc' = Applied("google.GetEvents", calc.in, GoogleGetEvents(calc.in, "c1"))
    /\ ProviderIdle

ProviderInit ==
    /\ db = EmptyDB
    /\ last = Called("NewStore", NoId, FALSE, 0, FALSE)
    /\ result = <<>>
    /\ mu = NoCaller
    /\ conn = NoCaller
    /\ callers = <<>>
    /\ sync = [a \in AccountIds |-> IdleTask]
    /\ syncAcc = [a \in AccountIds |-> NoAccount]
    /\ log = [a \in AccountIds |-> EmptyLog]
    /\ now = 1
    /\ startup = IdleStartup
    /\ oauth = NoOAuth
    /\ client = NoClient
    /\ calc \in {Input("event", e) : e \in CodecEvents}
                \cup {Input("object", o) : o \in CalendarObjects}
                \cup {Input("answer", q) : q \in QueryAnswers}
                \cup {Input("items", q) : q \in ApiAnswers}

ProviderNext ==
    \/ EventToICal
    \/ ParseICalEvent
    \/ GetCalDAVEvents
    \/ GetGoogleEvents

ProviderSpec == ProviderInit /\ [][ProviderNext]_vars

----------------------------------------------------------------------------
(* BootstrapSpec: ensureDefaultCalendar, run by activate at each start of  *)
(* the process, between calls of the Store                                 *)

\* fmt.Sprintf("acc-%d", time.Now().UnixNano()): an identifier not stored yet
FreshIds(ids, table) == ids \ {r.id : r \in table}

\* ensureDefaultCalendar: when the store holds no calendar, a local account is
\* saved and then its calendar; an error of either save ends the call.
EnsureDefaultCalendar(id, calId, accOk, calOk) ==
    LET account == Account(id, "local", 0)
        cal == Calendar(calId, id, TRUE)
        d1 == IF accOk THEN ExecSaveAccount(db, account).db ELSE db
        d2 == IF accOk /\ calOk THEN ExecSaveCalendar(d1, cal).db ELSE d1
    IN /\ id \in FreshIds(AccountIds, db.accounts)
       /\ calId \in FreshIds(CalendarIds, db.calendars)
       /\ IF db.calendars = {}
          THEN /\ db' = d2
               /\ calc' = [fn |-> "ensureDefaultCalendar", kind |-> "store",
                           first |-> db, in |-> db,
                           out |-> [account |-> IF accOk THEN id ELSE NoId,
                                    calendar |-> IF accOk /\ calOk THEN calId ELSE NoId,
                                    err |-> ~(accOk /\ calOk)]]
          ELSE /\ db' = db
               /\ calc' = [fn |-> "ensureDefaultCalendar", kind |-> "store",
                           first |-> db, in |-> db,
                           out |-> [account |-> NoId, calendar |-> NoId, err |-> FALSE]]
       /\ last' = Called("GetAllCalendars", NoId, FALSE, 0, FALSE)
       /\ result' = <<>>
       /\ UNCHANGED <<mu, conn, callers, sync, syncAcc, log, now, startup, oauth, client>>

BootstrapInit == InitCommon

BootstrapNext ==
    \/ \E id \in AccountIds, calId \in CalendarIds, accOk, calOk \in BOOLEAN :
          EnsureDefaultCalendar(id, calId, accOk, calOk)
    \/ \E a \in AccountInputs : SaveAccount(a)
    \/ \E id \in AccountIds : DeleteAccount(id)
    \/ \E id \in CalendarIds : DeleteCalendar(id)

BootstrapSpec == BootstrapInit /\ [][BootstrapNext]_vars

----------------------------------------------------------------------------
(* WindowSpec: the range of events a sync asks for, computed from the date *)
(* of the sync                                                             *)

\* The year of the sync dates (a leap year), days being counted from the
\* first of January of the year before.
SyncYear == 2024

Leap(y) == (y % 4 = 0 /\ y % 100 # 0) \/ y % 400 = 0

DaysIn(y, m) ==
    CASE m \in {4, 6, 9, 11} -> 30
      [] m = 2 -> IF Leap(y) THEN 29 ELSE 28
      [] OTHER -> 31

RECURSIVE DaysBefore(_, _)
DaysBefore(y, m) == IF m <= 1 THEN 0 ELSE DaysBefore(y, m - 1) + DaysIn(y, m - 1)

RECURSIVE DaysBeforeYear(_)
DaysBeforeYear(y) ==
    IF y < SyncYear THEN 0
    ELSE DaysBeforeYear(y - 1) + (IF Leap(y - 1) THEN 366 ELSE 365)

\* time.Date(y, m, d, ...): the day the date stands for, a month outside 1..12
\* or a day past the end of the month being carried over as Go normalises them.
Date(y, m, d) ==
    LET yy == IF m < 1 THEN y - 1 ELSE IF m > 12 THEN y + 1 ELSE y
        mm == IF m < 1 THEN m + 12 ELSE IF m > 12 THEN m - 12 ELSE m
    IN DaysBeforeYear(yy) + DaysBefore(yy, mm) + d - 1

\* t.AddDate(0, months, 0)
AddDate(t, months) == Date(t.y, t.m + months, t.d)

\* time.Now().AddDate(0, -1, 0) and time.Now().AddDate(0, 3, 0)
Window(t) == [start |-> AddDate(t, 0 - 1), end |-> AddDate(t, 3)]

SyncDates == {t \in [y : {SyncYear}, m : 1..12, d : 1..31] : t.d <= DaysIn(t.y, t.m)}

WindowIdle ==
    UNCHANGED <<db, last, result, mu, conn, callers, sync, syncAcc, log, now,
                startup, oauth, client>>

\* syncCalDAVAccount: start and end of client.GetEvents
CalDAVWindow ==
    /\ calc.fn = "date"
    /\ calc' = Applied("syncCalDAVAccount", calc.in, Window(calc.in))
    /\ WindowIdle

\* fetchGoogleEvents: timeMin and timeMax of the request
GoogleWindow ==
    /\ calc.fn = "date"
    /\ calc' = Applied("fetchGoogleEvents", calc.in, Window(calc.in))
    /\ WindowIdle

WindowInit ==
    /\ db = EmptyDB
    /\ last = Called("NewStore", NoId, FALSE, 0, FALSE)
    /\ result = <<>>
    /\ mu = NoCaller
    /\ conn = NoCaller
    /\ callers = <<>>
    /\ sync = [a \in AccountIds |-> IdleTask]
    /\ syncAcc = [a \in AccountIds |-> NoAccount]
    /\ log = [a \in AccountIds |-> EmptyLog]
    /\ now = 1
    /\ startup = IdleStartup
    /\ oauth = NoOAuth
    /\ client = NoClient
    /\ calc \in {Input("date", t) : t \in SyncDates}

WindowNext == CalDAVWindow \/ GoogleWindow

WindowSpec == WindowInit /\ [][WindowNext]_vars

----------------------------------------------------------------------------
(* PredicateSpec: the predicates of Event, each applied to events and an   *)
(* instant drawn at the start                                              *)

\* Overlaps with both comparisons inclusive: events that only touch overlap.
OverlapsClosed(e, other) == e.start <= other.end /\ e.end >= other.start

\* e.Start.Before(other.End) && e.End.After(other.Start)
Overlaps(e, other) == e.start < other.end /\ e.end > other.start

\* !t.Before(e.Start) && t.Before(e.End)
ContainsTime(e, t) == ~(t < e.start) /\ t < e.end

\* dateStart is the midnight of date, dateEnd is dateStart.Add(24 * time.Hour)
IsOnDate(e, date) ==
    LET dateStart == DayStart(date)
        dateEnd == dateStart + DayLen
    IN e.start < dateEnd /\ e.end > dateStart

\* Instants around the midnights that start day 1 and day 2.
PredicateInstants == Instants \cup {t + DayLen : t \in Instants}

PredicateEvents ==
    {Event("e1", "c1", "t1", s, e, FALSE) : s, e \in PredicateInstants}

PredicateInputs == [e : PredicateEvents, other : PredicateEvents, t : PredicateInstants]

PredicateIdle ==
    UNCHANGED <<db, last, result, mu, conn, callers, sync, syncAcc, log, now,
                startup, oauth, client>>

EvalOverlaps ==
    /\ calc.fn = "events"
    /\ calc' = Applied("Overlaps", calc.in, Overlaps(calc.in.e, calc.in.other))
    /\ PredicateIdle

EvalContainsTime ==
    /\ calc.fn = "events"
    /\ calc' = Applied("ContainsTime", calc.in, ContainsTime(calc.in.e, calc.in.t))
    /\ PredicateIdle

EvalIsOnDate ==
    /\ calc.fn = "events"
    /\ calc' = Applied("IsOnDate", calc.in, IsOnDate(calc.in.e, calc.in.t))
    /\ PredicateIdle

PredicateInit ==
    /\ db = EmptyDB
    /\ last = Called("NewStore", NoId, FALSE, 0, FALSE)
    /\ result = <<>>
    /\ mu = NoCaller
    /\ conn = NoCaller
    /\ callers = <<>>
    /\ sync = [a \in AccountIds |-> IdleTask]
    /\ syncAcc = [a \in AccountIds |-> NoAccount]
    /\ log = [a \in AccountIds |-> EmptyLog]
    /\ now = 1
    /\ startup = IdleStartup
    /\ oauth = NoOAuth
    /\ client = NoClient
    /\ calc \in {Input("events", x) : x \in PredicateInputs}

PredicateNext == EvalOverlaps \/ EvalContainsTime \/ EvalIsOnDate

PredicateSpec == PredicateInit /\ [][PredicateNext]_vars

----------------------------------------------------------------------------
(* AccountsSpec: the syncs of two accounts whose providers may list the     *)
(* same calendar, while the user shows and hides calendars in the sidebar  *)

\* What the providers answer here: one calendar, with no event or one.
ListedCalendars == {<<c>> : c \in CalendarIds}
ListedEvents == {<<>>, <<[id |-> "e1", cancelled |-> FALSE]>>}

\* createCalendarRow, check.ConnectToggled: cal.Visible = check.Active();
\* go app.store.SaveCalendar(cal)
ToggleVisible(c) ==
    /\ c \in db.calendars
    /\ Write("SaveCalendar", c.id, TRUE,
             ExecSaveCalendar(db, [c EXCEPT !.visible = ~c.visible]))
    /\ StoreIdle

AccountsInit == InitCommon

AccountsNext ==
    \/ \E a \in AccountIds : AddCalDAVAccount(a)
    \/ \E a \in AccountIds, g \in Grants : AddGoogleAccount(a, g)
    \/ \E a \in AccountIds : StartupSync(a)
    \/ \E a \in AccountIds : Dispatch(a)
    \/ \E a \in AccountIds, ok \in BOOLEAN : Authenticate(a, ok)
    \/ \E a \in AccountIds, cals \in ListedCalendars : ListCalendars(a, cals)
    \/ \E a \in AccountIds : SaveListedCalendar(a)
    \/ \E a \in AccountIds, items \in ListedEvents : FetchEvents(a, items)
    \/ \E a \in AccountIds : SaveFetchedEvent(a)
    \/ \E a \in AccountIds : UpdateLastSync(a)
    \/ \E c \in db.calendars : ToggleVisible(c)

AccountsSpec == AccountsInit /\ [][AccountsNext]_vars

----------------------------------------------------------------------------
(* EndpointSpec: the code exchange and the token refresh against a token   *)
(* endpoint that may answer anything                                       *)

\* A response of the token endpoint: whether the POST got one, whether its body
\* is JSON, and the fields of the body.
TokenResponses ==
    [sent : BOOLEAN, json : BOOLEAN, access_token : {"", "tok2"},
     refresh_token : {"", "rt"}, expires_in : {0} \cup Lifetimes,
     error : {"", "invalid_grant"}]

\* var result struct{...}; json.Unmarshal(body, &result): the fields of a JSON
\* body, the zero values otherwise.
Unmarshal(resp) ==
    IF resp.json THEN resp
    ELSE [resp EXCEPT !.access_token = "", !.refresh_token = "",
                      !.expires_in = 0, !.error = ""]

\* exchangeGoogleCode: the error of http.Post, or the error field of the body,
\* or the tokens of the body; the error of json.Unmarshal is dropped.
exchangeGoogleCode(resp) ==
    LET res == Unmarshal(resp)
    IN IF ~resp.sent THEN [accessToken |-> "", refreshToken |-> "", err |-> "post"]
       ELSE IF res.error # ""
       THEN [accessToken |-> "", refreshToken |-> "", err |-> res.error]
       ELSE [accessToken |-> res.access_token, refreshToken |-> res.refresh_token,
             err |-> ""]

\* refreshGoogleToken up to its SaveAccount: the account to save, or an error.
refreshGoogleToken(account, resp, t) ==
    LET res == Unmarshal(resp)
    IN IF account.refreshToken = "" THEN [account |-> account, err |-> "no refresh token"]
       ELSE IF ~resp.sent THEN [account |-> account, err |-> "post"]
       ELSE IF ~resp.json THEN [account |-> account, err |-> "decode"]
       ELSE IF res.error # "" THEN [account |-> account, err |-> res.error]
       ELSE [account |-> [account EXCEPT !.accessToken = res.access_token,
                                         !.tokenExpiry = t + res.expires_in],
             err |-> ""]

EndpointIdle == UNCHANGED <<mu, conn, callers, now, startup, oauth, client>>

\* startGoogleOAuth, case code: the exchange, and on success the new account
\* saved with the tokens and its sync started.
ExchangeGoogleCode(id, resp) ==
    LET x == exchangeGoogleCode(resp)
        acc == [Account(id, "google", 0) EXCEPT !.accessToken = x.accessToken,
                                                 !.refreshToken = x.refreshToken,
                                                 !.tokenExpiry = now + TokenLife]
        r == ExecSaveAccount(db, acc)
    IN /\ id \in FreshIds(AccountIds, db.accounts)
       /\ IF x.err # ""
          THEN /\ calc' = Applied("exchangeGoogleCode", resp, [account |-> NoAccount, err |-> x.err])
               /\ UNCHANGED <<db, last, result, sync, syncAcc, log>>
          ELSE /\ calc' = Applied("exchangeGoogleCode", resp, [account |-> acc, err |-> ""])
               /\ Write("SaveAccount", id, FALSE, r)
               /\ StartSync(id, acc)
       /\ EndpointIdle

\* syncGoogleCalendarAPI with an expired token: refreshGoogleToken, which saves
\* the account it refreshed.
RefreshGoogleToken(acc, resp) ==
    LET x == refreshGoogleToken(acc, resp, now)
        r == ExecSaveAccount(db, x.account)
    IN /\ acc \in db.accounts
       /\ acc.type = "google"
       /\ calc' = Applied("refreshGoogleToken", resp, x)
       /\ IF x.err # ""
          THEN UNCHANGED <<db, last, result>>
          ELSE Write("SaveAccount", acc.id, TRUE, r)
       /\ UNCHANGED <<sync, syncAcc, log>>
       /\ EndpointIdle

EndpointInit == InitCommon

EndpointNext ==
    \/ \E id \in SyncAccountIds, resp \in TokenResponses : ExchangeGoogleCode(id, resp)
    \/ \E acc \in db.accounts, resp \in TokenResponses : RefreshGoogleToken(acc, resp)

EndpointSpec == EndpointInit /\ [][EndpointNext]_vars

----------------------------------------------------------------------------
(* Claims about the Store, checked under Spec                              *)

OwnedCalendars(d, accId) == {c \in d.calendars : c.account_id = accId}
OwnedEvents(d, calId) == {e \in d.events : e.calendar_id = calId}
RowsWithId(table, id) == {r \in table : r.id = id}

\* C1: a SaveAccount or SaveCalendar whose identifier is already stored leaves
\* every calendar row and every event row stored and unchanged (SaveCalendar:
\* every event row, and every other calendar row).
C1_UpsertNeverCascades ==
    [][/\ (last'.op = "SaveAccount" /\ last'.existed)
            => /\ db'.calendars = db.calendars
               /\ db'.events = db.events
       /\ (last'.op = "SaveCalendar" /\ last'.existed)
            => /\ db'.events = db.events
               /\ \A c \in db.calendars : c.id # last'.id => c \in db'.calendars
               /\ HasId(db'.calendars, last'.id)]_vars

\* An account with a calendar and an event was saved again and its row changed.
C1_Witness ==
    /\ last.op = "SaveAccount" /\ last.existed /\ ~last.err
    /\ \E c \in OwnedCalendars(db, last.id) : OwnedEvents(db, c.id) # {}
    /\ \E a \in db.accounts : a.id = last.id /\ a.type = "google"

\* C2: each table holds at most one row per identifier; a successful save leaves
\* exactly one row with the saved identifier, equal to the saved entity; and a
\* row is written or changed only by a successful save of its identifier.
C2_IdempotentUpsert ==
    [][/\ \A t \in {db'.accounts, db'.calendars, db'.events} :
            \A r1, r2 \in t : r1.id = r2.id => r1 = r2
       /\ \A a \in AccountInputs : (last'.op = "SaveAccount" /\ ~last'.err /\ SaveAccount(a))
            => RowsWithId(db'.accounts, a.id) = {a}
       /\ \A c \in CalendarInputs : (last'.op = "SaveCalendar" /\ ~last'.err /\ SaveCalendar(c))
            => RowsWithId(db'.calendars, c.id) = {c}
       /\ \A e \in EventInputs : (last'.op = "SaveEvent" /\ ~last'.err /\ SaveEvent(e))
            => RowsWithId(db'.events, e.id) = {e}
       /\ \A r \in db'.accounts \ db.accounts :
            last'.op = "SaveAccount" /\ last'.id = r.id /\ ~last'.err
       /\ \A r \in db'.calendars \ db.calendars :
            last'.op = "SaveCalendar" /\ last'.id = r.id /\ ~last'.err
       /\ \A r \in db'.events \ db.events :
            last'.op = "SaveEvent" /\ last'.id = r.id /\ ~last'.err]_vars

\* An event stored with one title was saved again with the other title.
C2_Witness ==
    /\ last.op = "SaveEvent" /\ last.existed /\ ~last.err
    /\ \E e \in db.events : e.id = last.id /\ e.title = "t2"
    /\ last.removed = 0

\* C3: DeleteAccount(id) removes the account, its calendars and their events;
\* DeleteCalendar(id) removes the calendar and its events and nothing else.
C3_CascadeDelete ==
    [][/\ \A id \in AccountIds : (last'.op = "DeleteAccount" /\ last'.id = id)
            => /\ ~HasId(db'.accounts, id)
               /\ OwnedCalendars(db', id) = {}
               /\ \A c \in OwnedCalendars(db, id) :
                    ~HasId(db'.calendars, c.id) /\ OwnedEvents(db', c.id) = {}
       /\ \A id \in CalendarIds : (last'.op = "DeleteCalendar" /\ last'.id = id)
            => /\ ~HasId(db'.calendars, id)
               /\ OwnedEvents(db', id) = {}
               /\ db'.accounts = db.accounts
               /\ db'.calendars = {c \in db.calendars : c.id # id}
               /\ \A c \in db'.calendars : OwnedEvents(db', c.id) = OwnedEvents(db, c.id)]_vars

\* An account was deleted together with a calendar and an event of it, while the
\* other account keeps a calendar with an event.
C3_Witness ==
    /\ last.op = "DeleteAccount" /\ last.existed /\ last.removed >= 3
    /\ \E c \in db.calendars : OwnedEvents(db, c.id) # {}

\* C4: every calendar's account id names a stored account and every event's
\* calendar id names a stored calendar.
C4_ReferentialIntegrity ==
    /\ \A c \in db.calendars : HasId(db.accounts, c.account_id)
    /\ \A e \in db.events : HasId(db.calendars, e.calendar_id)

\* A calendar with an event was deleted while another calendar keeps its event.
C4_Witness ==
    /\ last.op = "DeleteCalendar" /\ last.removed >= 2
    /\ db.events # {}

\* C5 as stated: a save naming an unknown owner fails and changes nothing, and
\* a save of an identifier that is already stored never fails.
C5_AsStated ==
    [][/\ \A c \in CalendarInputs :
            (last'.op = "SaveCalendar" /\ SaveCalendar(c) /\ ~HasId(db.accounts, c.account_id))
            => last'.err /\ db' = db
       /\ \A e \in EventInputs :
            (last'.op = "SaveEvent" /\ SaveEvent(e) /\ ~HasId(db.calendars, e.calendar_id))
            => last'.err /\ db' = db
       /\ (last'.op \in {"SaveAccount", "SaveCalendar", "SaveEvent"} /\ last'.existed)
            => ~last'.err]_vars

\* C5 (amended): SaveCalendar fails exactly when its account id names no stored
\* account, SaveEvent exactly when its calendar id names no stored calendar,
\* whether or not the saved identifier is already stored; a failed save changes
\* nothing; SaveAccount never fails.
C5_ForeignKeyRejected ==
    [][/\ \A c \in CalendarInputs : (last'.op = "SaveCalendar" /\ SaveCalendar(c))
            => /\ last'.err <=> ~HasId(db.accounts, c.account_id)
               /\ last'.err => db' = db
       /\ \A e \in EventInputs : (last'.op = "SaveEvent" /\ SaveEvent(e))
            => /\ last'.err <=> ~HasId(db.calendars, e.calendar_id)
               /\ last'.err => db' = db
       /\ last'.op = "SaveAccount" => ~last'.err]_vars

\* A stored calendar was saved again with an account id that names no account.
C5_Witness ==
    /\ last.op = "SaveCalendar" /\ last.existed /\ last.err
    /\ HasId(db.calendars, last.id)

----------------------------------------------------------------------------
(* Claims about the range queries, checked under QuerySpec                 *)

Visible(d, calId) == \E c \in d.calendars : c.id = calId /\ c.visible

\* The stored events a query over [start, end) is to return.
Expected(d, start, end) ==
    {e \in d.events : /\ ~e.cancelled
                      /\ Visible(d, e.calendar_id)
                      /\ e.start < end
                      /\ e.end > start}

Ascending(s) == \A i, j \in DOMAIN s : i < j => s[i].start <= s[j].start

\* C6: GetEventsInRange(start, end) returns each stored event that is not
\* cancelled, lies in a visible calendar and has event.start < end and
\* event.end > start, once, in ascending order of start, and changes nothing; a
\* successful SaveCalendar sets the calendar's visible flag, keeps the flag of
\* every other calendar and keeps every event row: hiding a calendar takes its
\* events out of the results without deleting them, showing it brings them back.
C6_RangeQuery ==
    [][/\ last'.op = "GetEventsInRange"
            => \A s \in QueryInstants, e \in QueryInstants : GetEventsInRange(s, e)
                => /\ Range(result') = Expected(db, s, e)
                   /\ Len(result') = Cardinality(Expected(db, s, e))
                   /\ Ascending(result')
                   /\ db' = db
       /\ (last'.op = "SaveCalendar" /\ ~last'.err)
            => \A c \in QueryCalendarInputs : SaveCalendar(c)
                => /\ db'.events = db.events
                   /\ Visible(db', c.id) <=> c.visible
                   /\ \A o \in CalendarIds \ {c.id} : Visible(db', o) <=> Visible(db, o)]_vars

\* A range query returned one event and left out an event of the same interval
\* that is stored, not cancelled, in a calendar that is not visible.
C6_Witness ==
    /\ last.op = "GetEventsInRange"
    /\ Len(result) = 1
    /\ \E h \in db.events :
        /\ ~h.cancelled /\ ~Visible(db, h.calendar_id)
        /\ h.start = result[1].start /\ h.end = result[1].end

\* The date whose day contains instant t.
DateOf(t) == CHOOSE d \in Dates : d * DayLen <= t /\ t < (d + 1) * DayLen

\* C7: GetEventsForDate(t) returns what GetEventsInRange returns for the day of
\* t, from its midnight to 24 hours later; an event from 23:00 of day 0 to 01:00
\* of day 1 (not cancelled, in a visible calendar) is returned for day 0 and for
\* day 1 and for no other day, in particular not for day -1.
C7_DateQuery ==
    [][\A t \in DateInstants : (last'.op = "GetEventsForDate" /\ GetEventsForDate(t))
          => LET D == DateOf(t)
             IN /\ result' \in OrderedByStart(RangeRows(db, D * DayLen, D * DayLen + DayLen))
                /\ Range(result') = Expected(db, D * DayLen, D * DayLen + DayLen)
                /\ db' = db
                /\ \A ev \in db.events :
                     (/\ ev.start = DayLen - 1 /\ ev.end = DayLen + 1
                      /\ ~ev.cancelled /\ Visible(db, ev.calendar_id))
                        => (ev \in Range(result') <=> D \in {0, 1})]_vars

\* A date query returned the event that runs from 23:00 to 01:00.
C7_Witness ==
    /\ last.op = "GetEventsForDate"
    /\ \E i \in DOMAIN result :
        result[i].start = DayLen - 1 /\ result[i].end = DayLen + 1

----------------------------------------------------------------------------
(* Claims about concurrent writers, checked under LockSpec                 *)

\* The callers whose statement is running.
Writing == {i \in Callers : callers[i].pc = "exec"}

\* C8: at no time are two calls of the write methods (SaveAccount,
\* SaveCalendar, SaveEvent, DeleteAccount, DeleteCalendar, DeleteEvent,
\* DeleteEventsByCalendar) both running their statement.
C8_SingleWriter == Cardinality(Writing) <= 1

\* A Delete method runs its statement while a Save method, holding Store.mu,
\* waits for the connection.
C8_Witness ==
    \E i, j \in Callers :
        /\ callers[i].pc = "exec" /\ callers[i].op \in DeleteOps
        /\ callers[j].pc = "conn" /\ callers[j].op \in SaveOps /\ mu = j

----------------------------------------------------------------------------
(* Claims about the sync of an account, checked under SyncSpec             *)

\* C9: within one account's sync, an event fetch is issued only after the
\* calendar list was fetched; an event of a calendar is handed to SaveEvent (or
\* skipped) only after the events of that calendar were fetched; and the
\* last-sync instant is written only after SaveCalendar was called for every
\* listed calendar.
C9_SyncOrdering ==
    \A a \in SyncAccountIds :
        LET l == log[a]
        IN /\ l.asked # {} => l.listed
           /\ \A p \in l.offered \cup l.skipped : p[1] \in l.fetched
           /\ l.synced => l.listed /\ l.tried = DOMAIN sync[a].cals

\* A finished sync of two listed calendars, one of which failed, with a
\* fetched event handed to SaveEvent.
C9_Witness ==
    \E a \in SyncAccountIds :
        /\ log[a].synced
        /\ Len(sync[a].cals) = 2
        /\ log[a].failed # {}
        /\ log[a].offered # {}

\* C10 as stated: once SaveEvent has failed for an event of a calendar, every
\* later fetched event of that calendar is stored by its own SaveEvent.
C10_AsStated ==
    [][\A a \in SyncAccountIds :
          (/\ last'.op = "SaveEvent"
           /\ SaveFetchedEvent(a)
           /\ \E j \in 1..(sync[a].j - 1) :
                 <<"SaveEvent", sync[a].i, j>> \in log[a].failed)
          => ~last'.err]_vars

\* C10: a failed SaveCalendar, event fetch or SaveEvent does not end the sync:
\* SaveCalendar is called for every listed calendar the loop has passed, every
\* fetched event of a calendar the loop has passed was handed to SaveEvent
\* (whose own outcome may again be a failure) or skipped as cancelled, a sync
\* that listed the calendars and ended has written the last-sync instant, and
\* one that has not ended can take its next step.
C10_FailureIsolation ==
    \A a \in SyncAccountIds :
        LET l == log[a]
            t == sync[a]
        IN /\ \A k \in DOMAIN t.cals : k < t.i => k \in l.tried
           /\ \A c \in l.count :
                 c[1] < t.i =>
                    \A j \in 1..c[2] : <<c[1], j>> \in l.offered \cup l.skipped
           /\ (l.listed /\ t.pc = "done") => (l.synced /\ t.i > Len(t.cals))
           /\ (l.listed /\ t.pc # "done") => ENABLED SyncStep(a)

\* A finished sync whose first calendar's event fetch failed, whose second
\* calendar was fetched, and whose second event was handed to SaveEvent after
\* SaveEvent failed for the first.
C10_Witness ==
    \E a \in SyncAccountIds :
        /\ log[a].synced
        /\ <<"GetEvents", 1, 0>> \in log[a].failed
        /\ 2 \in log[a].fetched
        /\ <<"SaveEvent", 2, 1>> \in log[a].failed
        /\ <<2, 2>> \in log[a].offered

----------------------------------------------------------------------------
(* Claims about the sync of all accounts at start, checked under           *)
(* StartupSpec                                                             *)

\* The sync of the account went through: its calendar and its event are stored
\* and the last-sync instant was written.
Written(id) ==
    /\ Calendar(OwnCalendar(id), id, TRUE) \in db.calendars
    /\ \E e \in db.events : e.id = OwnEvent(id) /\ e.calendar_id = OwnCalendar(id)
    /\ log[id].synced

\* C11: when syncAllAccounts has returned, the sync of every account it had to
\* sync was run and has ended, whether or not the authentication (the token
\* refresh) of another account failed; it stopped at its own authentication or
\* sent its calendar-list request, and when the provider answered and no call
\* failed its calendar and event are stored.
C11_AuthFailureIsolated ==
    startup.pc = "done" =>
        \A acc \in startup.loaded :
            DueAtStart(acc) =>
                /\ startup.ran[acc.id] = 1
                /\ sync[acc.id].pc = "done"
                /\ log[acc.id].authFailed \/ log[acc.id].requested
                /\ (log[acc.id].listed /\ log[acc.id].failed = {}) => Written(acc.id)

\* Both accounts were due, the refresh of one failed, the other is written.
C11_Witness ==
    /\ startup.pc = "done"
    /\ \E x, y \in startup.loaded :
          /\ x.id # y.id
          /\ DueAtStart(x) /\ DueAtStart(y)
          /\ log[x.id].authFailed
          /\ ~log[x.id].requested
          /\ Written(y.id)

\* The points at which a sync waits for the network: the token endpoint, the
\* calendar list, the events of a calendar.
Suspended == {"refresh", "list", "fetch"}

\* C12 as stated: while the sync of one account waits for the network, the
\* sync of the next account due at start can start.
C12_AsStated ==
    (/\ startup.pc = "sync"
     /\ sync[startup.cur].pc \in Suspended
     /\ startup.queue # <<>>
     /\ DueAtStart(Head(startup.queue)))
    => ENABLED SyncAllCall

\* An account holds credentials: a Google account its access token, an Apple or
\* CalDAV account the user name and password the account dialog requires.
HasCredentials(acc) == acc.type = "google" => acc.accessToken # ""

\* C13 as stated: when syncAllAccounts has returned, the sync was run once for
\* every loaded account that is enabled and holds credentials, and not at all
\* for the others.
C13_AsStated ==
    startup.pc = "done" =>
        \A acc \in startup.loaded :
            startup.ran[acc.id] = IF acc.enabled /\ HasCredentials(acc) THEN 1 ELSE 0

----------------------------------------------------------------------------
(* Claims about the token refresh of a sync, checked under TokenSpec       *)

\* C14: a sync makes at most one refresh call; a sync that found the token not
\* expired makes none; and a sync that has sent its first authenticated request
\* (the calendar list) made exactly one refresh call before it if it found the
\* token expired, and none otherwise.
C14_RefreshGating ==
    \A a \in SyncAccountIds :
        LET l == log[a]
        IN /\ l.refreshes <= 1
           /\ ~l.expired => l.refreshes = 0
           /\ l.requested => l.refreshes = IF l.expired THEN 1 ELSE 0

\* A sync that found its token expired, refreshed it and sent the list request.
C14_Witness ==
    \E a \in SyncAccountIds :
        /\ log[a].expired
        /\ log[a].refreshes = 1
        /\ log[a].requested

\* C15: a Google sync whose token refresh failed has ended, made no further
\* refresh call, sent no calendar-list or event request, called neither
\* SaveCalendar nor SaveEvent, did not write the last-sync instant, and takes
\* no further step.
C15_RefreshFailureAborts ==
    \A a \in SyncAccountIds :
        (log[a].authFailed /\ syncAcc[a].type = "google") =>
            /\ sync[a].pc = "done"
            /\ log[a].refreshes <= 1
            /\ ~log[a].requested /\ ~log[a].listed
            /\ log[a].asked = {}
            /\ log[a].tried = {} /\ log[a].offered = {}
            /\ ~log[a].synced
            /\ ~ENABLED StartupSyncStep(a)

\* A sync ended by a refresh call that the token endpoint refused.
C15_Witness ==
    \E a \in SyncAccountIds :
        /\ log[a].authFailed
        /\ syncAcc[a].type = "google"
        /\ log[a].refreshes = 1
        /\ sync[a].pc = "done"

\* The stored row of account a.
StoredAccount(d, a) == {r \in d.accounts : r.id = a}

\* C16: after a successful token refresh the stored account carries the new
\* access token, the expiry now + the returned lifetime, and the refresh token
\* it had; after a successful code exchange the stored account carries the
\* granted tokens.
C16_RefreshPersisted ==
    [][\A a \in SyncAccountIds :
          /\ \A life \in Lifetimes :
                (/\ last'.op = "SaveAccount"
                 /\ RefreshToken(a, life)
                 /\ ~last'.err)
                => /\ \E r \in StoredAccount(db', a) :
                         /\ r.accessToken = "tok2"
                         /\ r.tokenExpiry = now + life
                         /\ r.refreshToken = syncAcc[a].refreshToken
                   /\ \A old \in StoredAccount(db, a), r \in StoredAccount(db', a) :
                         r.refreshToken = old.refreshToken
          /\ \A g \in Grants :
                (/\ last'.op = "SaveAccount"
                 /\ AddGoogleAccount(a, g)
                 /\ ~last'.err)
                => \E r \in StoredAccount(db', a) :
                      /\ r.accessToken = g.access
                      /\ r.refreshToken = g.refresh
                      /\ r.tokenExpiry = now + TokenLife]_vars

\* A stored account with a refreshed token and the longer lifetime, whose
\* refresh token is still the granted one.
C16_Witness ==
    \E a \in SyncAccountIds :
        /\ log[a].refreshes = 1
        /\ \E r \in StoredAccount(db, a) :
              /\ r.accessToken = "tok2"
              /\ r.tokenExpiry = now + 2
              /\ r.refreshToken = "rt"

----------------------------------------------------------------------------
(* Claims about the OAuth callback wait, checked under OAuthSpec           *)

\* Every wait that has completed observed one outcome, and no other wait did.
OnePerWait ==
    /\ Len(oauth.delivered) =
          IF oauth.pc \in {"select", "blocked"} THEN oauth.waits - 1 ELSE oauth.waits
    /\ \A n \in DOMAIN oauth.delivered :
          /\ oauth.delivered[n].wait = n
          /\ oauth.delivered[n].msg.kind \in {"code", "error", "timeout"}

\* After the outcome startGoogleOAuth has closed its listener.
ClosedAfterOutcome == (oauth.impl = "app" /\ oauth.pc = "closed") => ~oauth.serving

C18_AsStated ==
    /\ \A n \in DOMAIN oauth.delivered :
          ~(/\ oauth.delivered[n].msg.nth >= 2
            /\ oauth.delivered[n].msg.auth < oauth.delivered[n].wait)
    /\ oauth.exchanges <= oauth.waits
    /\ oauth.accounts <= oauth.exchanges

\* C19 as stated: a delivered callback that carried code=C is the code C, a
\* delivered callback that carried error=E and no code is an error carrying E,
\* and a waiter blocked when the timer fires gets the timeout.
C19_AsStated ==
    \A n \in DOMAIN oauth.delivered :
        LET m == oauth.delivered[n].msg
        IN /\ m.q.code # "" => (m.kind = "code" /\ m.val = m.q.code)
           /\ (m.q.code = "" /\ m.q.error # "") => (m.kind = "error" /\ m.val = m.q.error)
           /\ m.kind = "timeout" => m.q = NoQuery

\* C37: when an authorization attempt of startGoogleOAuth has ended, however
\* it ended, its listener is stopped and no listener holds the redirect port:
\* the server of a later attempt can listen.
C37_AsStated ==
    (oauth.impl = "app" /\ oauth.pc \in {"idle", "closed"}) =>
        /\ ~oauth.serving
        /\ ~oauth.held
        /\ oauth.waits < MaxWaits => ENABLED StartGoogleOAuth(TRUE)

\* The handler goroutines blocked in their send to a channel.
BlockedHandlers == oauth.blockedCode \o oauth.blockedErr

\* C38: when an authorization attempt of startGoogleOAuth is over (its waiting
\* goroutine has taken its one outcome and called Shutdown, after which nothing
\* receives from the attempt's channels), no handler goroutine is blocked in
\* its send, so every handler has returned and Shutdown, which waits for the
\* handlers, returns.
C38_AsStated ==
    (oauth.impl = "app" /\ oauth.pc = "closed") => BlockedHandlers = <<>>

----------------------------------------------------------------------------
(* Claims about the provider clients, checked under ClientSpec             *)

\* C20 as stated: an operation called on a client on which no Authenticate
\* call has returned success returns "not authenticated", also after an
\* Authenticate call that returned an error.
C20_AsStated ==
    (client.op \in ProviderOps /\ ~client.authOk) => client.result = "not authenticated"

----------------------------------------------------------------------------
(* Claims about the provider clients' GetEvents and the iCalendar codec,   *)
(* checked under ProviderSpec                                              *)

\* The identifiers of the events a GetEvents call returned.
ReturnedIds == {calc.out.events[k].id : k \in DOMAIN calc.out.events}

\* C21: GetEvents of the Google client returns no event for an item whose
\* status is cancelled (and one for every other item), while GetEvents of the
\* CalDAV client returns the event of every object whose VEVENT says
\* STATUS:CANCELLED, with cancelled = true.
C21_AsStated ==
    /\ (calc.fn = "google.GetEvents" /\ calc.out.err = "") =>
          \A k \in DOMAIN calc.in.items :
             calc.in.items[k].id \in ReturnedIds
                <=> calc.in.items[k].status # "cancelled"
    /\ (calc.fn = "caldav.GetEvents" /\ calc.out.err = "") =>
          \A k \in DOMAIN calc.in.objects :
             LET o == calc.in.objects[k]
             IN (/\ o.children # <<>>
                 /\ o.children[1].name = "VEVENT"
                 /\ o.children[1].props.status.value = <<"CANCELLED">>)
                => \E m \in DOMAIN calc.out.events :
                      /\ calc.out.events[m].id = o.children[1].props.uid.value[1]
                      /\ calc.out.events[m].cancelled

----------------------------------------------------------------------------
(* Claims about what a sync leaves in the store, checked under SyncSpec    *)

Ids(table) == {r.id : r \in table}

\* The sync goroutine of the account, which had begun and not ended, took a step.
Stepped(a) == sync[a].pc \notin {"idle", "done"} /\ sync'[a] # sync[a]

TotalFailure(a) ==
    /\ sync[a].pc = "done"
    /\ log[a].authFailed \/ (log[a].requested /\ ~log[a].listed)

ToSecond(t) == [t EXCEPT !.nano = 0]
ToDate(t) == Time(t.day, 0, 0)

SameInstant(allDay, t, u) ==
    IF allDay THEN ToDate(t) = ToDate(u) ELSE ToSecond(t) = ToSecond(u)

\* C24: parseICalEvent of the object eventToICal makes of an event succeeds and
\* gives the event's title, location, description and all-day flag, and its
\* start and end to the second (to the day when the event is all-day).
C24_AsStated ==
    (calc.kind = "event" /\ calc.fn = "parseICalEvent") =>
        LET e == calc.first
            d == calc.out.event
        IN /\ calc.out.err = ""
           /\ d.title = e.title
           /\ d.location = e.location
           /\ d.description = e.description
           /\ d.allDay = e.allDay
           /\ SameInstant(e.allDay, d.start, e.start)
           /\ SameInstant(e.allDay, d.end, e.end)

HasVEvent(obj) == obj.data /\ \E k \in DOMAIN obj.children : obj.children[k].name = "VEVENT"

FirstVEvent(obj) == SelectSeq(obj.children, LAMBDA c : c.name = "VEVENT")[1]

\* C25: parseICalEvent fails exactly when the object has no VEVENT component;
\* a start or end that does not parse is left at the zero time in an event
\* that is returned all the same; and GetEvents of the CalDAV client, when its
\* query succeeds, returns without error the events of the objects that have
\* a VEVENT, in their order, leaving out the others.
C25_DecodeErrorsIsolated ==
    /\ calc.fn = "parseICalEvent" =>
          /\ calc.out.err # "" <=> ~HasVEvent(calc.in)
          /\ calc.out.err = "" =>
                LET p == FirstVEvent(calc.in).props
                IN /\ (p.dtstart.set /\ ~p.dtstart.ok) => calc.out.event.start = ZeroTime
                   /\ (p.dtend.set /\ ~p.dtend.ok) => calc.out.event.end = ZeroTime
    /\ (calc.fn = "caldav.GetEvents" /\ calc.in.ready /\ calc.in.ok) =>
          LET decoded == SelectSeq(calc.in.objects, HasVEvent)
          IN /\ calc.out.err = ""
             /\ Len(calc.out.events) = Len(decoded)
             /\ \A k \in DOMAIN decoded :
                   calc.out.events[k].id = FirstVEvent(decoded[k]).props.uid.value[1]

\* GetEvents was given two objects, one without a VEVENT and one whose start
\* does not parse, and returned the event of the second with a zero start.
C25_Witness ==
    /\ calc.fn = "caldav.GetEvents"
    /\ calc.out.err = ""
    /\ Len(calc.in.objects) = 2
    /\ ~HasVEvent(calc.in.objects[1])
    /\ HasVEvent(calc.in.objects[2])
    /\ ~FirstVEvent(calc.in.objects[2]).props.dtstart.ok
    /\ Len(calc.out.events) = 1
    /\ calc.out.events[1].start = ZeroTime

----------------------------------------------------------------------------
(* Claims about the first-run bootstrap, checked under BootstrapSpec       *)

\* C26: a start creates a local account only when the store holds no account,
\* and then (unless the save fails) it creates one; when an account is stored
\* the start creates none.
C26_AsStated ==
    calc.fn = "ensureDefaultCalendar" =>
        /\ calc.out.account # NoId => calc.in.accounts = {}
        /\ (calc.in.accounts = {} /\ ~calc.out.err) => calc.out.account # NoId

----------------------------------------------------------------------------
(* Claims about account rows, checked under Spec                           *)

\* C27: no call of the Store changes the type of an account row that is
\* stored: a row with the same identifier before and after a step has the
\* same type.
C27_AsStated ==
    [][\A r \in db.accounts, q \in db'.accounts : r.id = q.id => q.type = r.type]_vars

----------------------------------------------------------------------------
(* Claims about the fetch window, checked under WindowSpec                 *)

\* C28: on every sync date the range asked for starts exactly 30 days before
\* the date and ends exactly 90 days after it.
C28_AsStated ==
    calc.fn \in {"syncCalDAVAccount", "fetchGoogleEvents"} =>
        /\ calc.out.start = Date(calc.in.y, calc.in.m, calc.in.d) - 30
        /\ calc.out.end = Date(calc.in.y, calc.in.m, calc.in.d) + 90

----------------------------------------------------------------------------
(* Claims about an account without a refresh token, checked under TokenSpec *)

\* C29: an account granted no refresh token is never refreshed: no step
\* changes the access token or the expiry of its stored row, and every sync
\* of it that begins after the expiry ends with an authentication error
\* before any request, having saved no calendar and no event.
C29_NoRefreshToken ==
    /\ [][\A r \in db.accounts, q \in db'.accounts :
            (r.id = q.id /\ r.refreshToken = "") =>
                /\ q.refreshToken = ""
                /\ q.accessToken = r.accessToken
                /\ q.tokenExpiry = r.tokenExpiry]_vars
    /\ [](\A a \in SyncAccountIds :
            (syncAcc[a].type = "google" /\ syncAcc[a].refreshToken = ""
                /\ log[a].expired) =>
                /\ sync[a].pc \in {"refresh", "done"}
                /\ log[a].refreshes = 0
                /\ ~log[a].requested
                /\ log[a].tried = {} /\ log[a].offered = {} /\ ~log[a].synced
                /\ sync[a].pc = "done" => log[a].authFailed)

\* A sync of an account without a refresh token began after the token's expiry
\* and has ended, the store holding a calendar from an earlier sync of it.
C29_Witness ==
    \E a \in SyncAccountIds :
        /\ sync[a].pc = "done"
        /\ syncAcc[a].refreshToken = ""
        /\ log[a].expired
        /\ log[a].authFailed
        /\ \E r \in db.accounts : r.id = a /\ r.lastSync > 0 /\ now > r.tokenExpiry
        /\ \E c \in db.calendars : c.account_id = a

----------------------------------------------------------------------------
(* Claims about the predicates of Event, checked under PredicateSpec       *)

\* A store holding the event alone, in a visible calendar.
StoreOf(e) ==
    [accounts |-> {Account("a1", "local", 0)},
     calendars |-> {Calendar(e.calendar_id, "a1", TRUE)},
     events |-> {e}]

\* Some instant lies in both half-open intervals [s1, e1) and [s2, e2).
Intersect(s1, e1, s2, e2) ==
    \E t \in 0..(3 * DayLen) : s1 <= t /\ t < e1 /\ s2 <= t /\ t < e2

\* C30: Overlaps(a, b) is a.start < b.end and b.start < a.end, the same for
\* (b, a), and for events that end after they start it says that their
\* half-open intervals share an instant; ContainsTime(t) is start <= t < end;
\* IsOnDate(D) is true exactly when GetEventsForDate(D) would select the event
\* by its interval, which for an event that ends after it starts says that it
\* shares an instant with the day [D 00:00, D 00:00 + 24h).
C30_DerivedPredicates ==
    LET a == calc.in.e
        b == calc.in.other
        t == calc.in.t
    IN /\ calc.fn = "Overlaps" =>
             /\ calc.out <=> (a.start < b.end /\ b.start < a.end)
             /\ calc.out <=> Overlaps(b, a)
             /\ (a.start < a.end /\ b.start < b.end) =>
                   (calc.out <=> Intersect(a.start, a.end, b.start, b.end))
       /\ calc.fn = "ContainsTime" => (calc.out <=> (a.start <= t /\ t < a.end))
       /\ calc.fn = "IsOnDate" =>
             /\ calc.out <=> a \in RangeRows(StoreOf(a), DayStart(t), DayStart(t) + DayLen)
             /\ a.start < a.end =>
                   (calc.out <=> Intersect(a.start, a.end, DayStart(t), DayStart(t) + DayLen))

\* IsOnDate was true of an event that begins the day before the date and ends
\* on it, and false of no such event: the event crosses the date's midnight.
C30_Witness ==
    /\ calc.fn = "IsOnDate"
    /\ calc.out
    /\ calc.in.e.start < DayStart(calc.in.t)
    /\ calc.in.e.end > DayStart(calc.in.t)
    /\ calc.in.e.end < DayStart(calc.in.t) + DayLen

----------------------------------------------------------------------------
(* Claims about what a sync overwrites, checked under SyncSpec             *)

\* The calendar a sync goroutine is saving the events of.
CalendarInSync(a) == sync[a].cals[sync[a].i]

\* C31: while a sync saves the events fetched for one calendar, every stored
\* event owned by another calendar stays stored with the same owner and the
\* same fields, whatever the identifiers of the fetched events.
C31_AsStated ==
    [][\A a \in SyncAccountIds :
          (At(a, "saveEv") /\ Stepped(a)) =>
              \A e \in db.events :
                  e.calendar_id # CalendarInSync(a) => e \in db'.events]_vars

----------------------------------------------------------------------------
(* Claims about the syncs of two accounts, checked under AccountsSpec      *)

\* C32: no step of the sync of an account changes the owner of a calendar
\* that another account owns, whatever the identifiers of the calendars its
\* provider lists.
C32_AsStated ==
    [][\A a \in AccountIds :
          Stepped(a) =>
              \A c \in db.calendars :
                  c.account_id # a =>
                      \E c2 \in db'.calendars :
                          c2.id = c.id /\ c2.account_id = c.account_id]_vars

\* A sync of account a begins, or takes a step.
InSync(a) == sync'[a] # sync[a]

\* C33: from the start of a sync of an account to its end, a stored calendar
\* of the account that is hidden stays hidden, and none of its events is among
\* the rows of a range query.
C33_AsStated ==
    [][\A a \in AccountIds :
          InSync(a) =>
              \A c \in db.calendars :
                  (c.account_id = a /\ ~c.visible) =>
                      /\ \A c2 \in db'.calendars : c2.id = c.id => ~c2.visible
                      /\ \A e \in RangeRows(db', 0, 3 * DayLen) :
                            e.calendar_id # c.id]_vars

----------------------------------------------------------------------------
(* Claims about cancelled events after a sync, checked under SyncSpec      *)

\* The fetched item a sync goroutine is at.
ItemInSync(a) == sync[a].items[sync[a].j]

\* C34: once a sync has handled a fetched item that the provider reports as
\* cancelled, the event of that identifier in the calendar in sync is not among
\* the rows of a range query, for an account of either type and also when the
\* event was stored as not cancelled before.
C34_AsStated ==
    [][\A a \in SyncAccountIds :
          (At(a, "saveEv") /\ Stepped(a) /\ ItemInSync(a).cancelled) =>
              \A e \in RangeRows(db', 0, 3 * DayLen) :
                  ~(e.id = ItemInSync(a).id /\ e.calendar_id = CalendarInSync(a))]_vars

----------------------------------------------------------------------------
(* Claims about an account deleted during its sync, checked under SyncSpec *)

\* C35: when the account of a sync in flight is no longer stored (it was
\* stored when the sync began, so DeleteAccount has removed it), no step of
\* that sync stores the account again, or a calendar or an event.
C35_AsStated ==
    [][\A a \in SyncAccountIds :
          (Stepped(a) /\ ~HasId(db.accounts, a)) =>
              /\ ~HasId(db'.accounts, a)
              /\ db'.calendars = {}
              /\ db'.events = {}]_vars

----------------------------------------------------------------------------
(* Claims about the date of an event, checked under QuerySpec              *)

\* C36: GetEventsForDate(t) returns every stored event that is not cancelled,
\* lies in a visible calendar and starts on the date of t, whatever its end:
\* after its start, equal to its start or before its start.
C36_AsStated ==
    [][last'.op = "GetEventsForDate"
          => \A t \in DateInstants : GetEventsForDate(t)
              => \A e \in db.events :
                    (/\ ~e.cancelled
                     /\ Visible(db, e.calendar_id)
                     /\ DayStart(e.start) = DayStart(t))
                    => e \in Range(result')]_vars

----------------------------------------------------------------------------
(* Claims about the tokens an account is stored with, checked under        *)
(* EndpointSpec                                                            *)

\* C39: after a code exchange or a token refresh that returned no error, the
\* account it saved is stored with an access token that is not empty, and
\* after a refresh with an expiry later than the instant of the refresh,
\* whatever the token endpoint answered.
C39_AsStated ==
    /\ (calc.fn = "exchangeGoogleCode" /\ calc.out.err = "") =>
          /\ calc.out.account \in db.accounts
          /\ calc.out.account.accessToken # ""
    /\ (calc.fn = "refreshGoogleToken" /\ calc.out.err = "") =>
          /\ calc.out.account \in db.accounts
          /\ calc.out.account.accessToken # ""
          /\ calc.out.account.tokenExpiry > now

====
